---- MODULE Spec2Model ----
(***************************************************************************)
(* Statement import and classification pipeline of PlannerFinanceiroPJ:    *)
(* the rule engine (core/regras.py), the import and staging writer         *)
(* (core/importacao.py), the classifier pass and the commit of a batch     *)
(* (core/import_view.py) and the manual ledger operations                  *)
(* (core/models.py), over the tables of core/db.py.                        *)
(*                                                                         *)
(* Texts that the rule engine matches are sequences of one-character       *)
(* strings; opaque texts (dates, suggested descriptions, payment methods,  *)
(* ids of categories and cost centers) are atomic strings.  SQL NULL and   *)
(* Python None are Nulo for atomic values and NuloTxt for matched texts.   *)
(***************************************************************************)
EXTENDS Integers, Sequences, FiniteSets, TLC

VARIABLES
    regras,         \* table regras_auto_categorizacao, in rowid order
    chamada,        \* last direct call of aplicar_regras_auto_categorizacao
    importacoes,    \* table importacoes_extrato (committed rows), by id
    staging,        \* table staging_transacoes_import (committed rows), by id
    transactions,   \* table transactions (committed rows), by id
    importacao_id,  \* ImportView.importacao_id (0 is None)
    imp,            \* the import in progress: its connection and locals
    confirmadas,    \* history: ids of the batches whose commit succeeded
    pedidas,        \* history: ids of the batches whose commit the user asked for (Yes)
    reimportadas    \* history: batches imported after the user asked for the commit
                    \* of a batch of the same file and account

vars == <<regras, chamada, importacoes, staging, transactions, importacao_id,
          imp, confirmadas, pedidas, reimportadas>>

vars_pipeline == <<importacoes, staging, transactions, importacao_id, imp,
                   confirmadas, pedidas, reimportadas>>

-----------------------------------------------------------------------------
(* Values *)

Nulo == "NULL"
NuloTxt == <<"NULL">>

\* `x or ""` on a matched text
OuVazio(t) == IF t = NuloTxt THEN <<>> ELSE t

\* Python truthiness of an optional atomic text or id: None and "" are falsy
Truthy(x) == x # Nulo /\ x # ""

Empresas == {"E1", "E2"}

\* the tenant of the ImportView of this session
EmpresaSessao == "E1"

-----------------------------------------------------------------------------
(* core/regras.py *)

\* str.upper() on one character of the alphabet
UpperChar(c) ==
    CASE c = "a" -> "A"
      [] c = "b" -> "B"
      [] OTHER -> c

Upper(s) == [i \in 1..Len(s) |-> UpperChar(s[i])]

\* `p in v`
Contem(p, v) ==
    \E i \in 0..(Len(v) - Len(p)) : SubSeq(v, i + 1, i + Len(p)) = p

StartsWith(v, p) == Len(p) <= Len(v) /\ SubSeq(v, 1, Len(p)) = p

EndsWith(v, p) ==
    Len(p) <= Len(v) /\ SubSeq(v, Len(v) - Len(p) + 1, Len(v)) = p

\* re.compile fails on an unterminated group; the alphabet has no ")"
ReMalformado(p) == \E i \in 1..Len(p) : p[i] = "("

\* re.search(padrao, valor) for a pattern of literals: "erro" is re.error
ReSearch(p, v) ==
    IF ReMalformado(p) THEN "erro"
    ELSE IF Contem(p, v) THEN "achou" ELSE "nada"

\* faulty variant: re.error is not caught
MatchPatternSemTry(valor, tipo_match, padrao) ==
    LET valor_norm == Upper(OuVazio(valor))
        padrao_norm == Upper(OuVazio(padrao))
    IN  CASE tipo_match = "contem" ->
               IF Contem(padrao_norm, valor_norm) THEN "sim" ELSE "nao"
          [] tipo_match = "igual" ->
               IF valor_norm = padrao_norm THEN "sim" ELSE "nao"
          [] tipo_match = "prefixo" ->
               IF StartsWith(valor_norm, padrao_norm) THEN "sim" ELSE "nao"
          [] tipo_match = "sufixo" ->
               IF EndsWith(valor_norm, padrao_norm) THEN "sim" ELSE "nao"
          [] tipo_match = "regex" ->
               LET r == ReSearch(padrao, OuVazio(valor))
               IN  IF r = "erro" THEN "raise"
                   ELSE IF r = "achou" THEN "sim" ELSE "nao"
          [] OTHER -> "nao"

\* _match_pattern: "sim" is True, "nao" is False, "raise" an exception leaving it
_match_pattern(valor, tipo_match, padrao) ==
    LET valor_norm == Upper(OuVazio(valor))
        padrao_norm == Upper(OuVazio(padrao))
    IN  CASE tipo_match = "contem" ->
               IF Contem(padrao_norm, valor_norm) THEN "sim" ELSE "nao"
          [] tipo_match = "igual" ->
               IF valor_norm = padrao_norm THEN "sim" ELSE "nao"
          [] tipo_match = "prefixo" ->
               IF StartsWith(valor_norm, padrao_norm) THEN "sim" ELSE "nao"
          [] tipo_match = "sufixo" ->
               IF EndsWith(valor_norm, padrao_norm) THEN "sim" ELSE "nao"
          [] tipo_match = "regex" ->
               LET r == ReSearch(padrao, OuVazio(valor))
               IN  IF r = "erro" THEN "nao"
                   ELSE IF r = "achou" THEN "sim" ELSE "nao"
          [] OTHER -> "nao"

\* campo_map.get(campo_alvo, "")
CampoMap(campo_alvo, descricao_extrato, favorecido_texto, forma_pagamento_detectada) ==
    CASE campo_alvo = "descricao_extrato" -> OuVazio(descricao_extrato)
      [] campo_alvo = "favorecido_texto" -> OuVazio(favorecido_texto)
      [] campo_alvo = "forma_pagamento" -> OuVazio(forma_pagamento_detectada)
      [] OTHER -> <<>>

\* the rows of SELECT ... WHERE codigoempresa = ? AND ativo = 1
Selecionadas(tab, codigoempresa) ==
    {i \in 1..Len(tab) : tab[i].codigoempresa = codigoempresa /\ tab[i].ativo = 1}

\* faulty variant: ORDER BY prioridade ASC
OrdensAsc(tab, codigoempresa) ==
    LET S == Selecionadas(tab, codigoempresa)
        n == Cardinality(S)
    IN  {o \in [1..n -> S] :
            /\ \A i, j \in 1..n : i # j => o[i] # o[j]
            /\ \A i, j \in 1..n :
                  i < j => tab[o[i]].prioridade <= tab[o[j]].prioridade}

\* faulty variant: the query does not filter by tenant
OrdensSemEmpresa(tab, codigoempresa) ==
    LET S == {i \in 1..Len(tab) : tab[i].ativo = 1}
        n == Cardinality(S)
    IN  {o \in [1..n -> S] :
            /\ \A i, j \in 1..n : i # j => o[i] # o[j]
            /\ \A i, j \in 1..n :
                  i < j => tab[o[i]].prioridade >= tab[o[j]].prioridade}

\* the orders ORDER BY prioridade DESC may return the selected rows in:
\* rows of equal priority come in an order SQL leaves open
Ordens(tab, codigoempresa) ==
    LET S == Selecionadas(tab, codigoempresa)
        n == Cardinality(S)
    IN  {o \in [1..n -> S] :
            /\ \A i, j \in 1..n : i # j => o[i] # o[j]
            /\ \A i, j \in 1..n :
                  i < j => tab[o[i]].prioridade >= tab[o[j]].prioridade}

SemSugestao ==
    [raised |-> FALSE, regra |-> 0, categoria_id |-> Nulo,
     centro_custo_id |-> Nulo, descricao_sugerida |-> Nulo,
     forma_pagamento_fixa |-> Nulo]

Levantou ==
    [raised |-> TRUE, regra |-> 0, categoria_id |-> Nulo,
     centro_custo_id |-> Nulo, descricao_sugerida |-> Nulo,
     forma_pagamento_fixa |-> Nulo]

\* the tuple returned at a match; regra is the id of the row it came from
SaidaDe(tab, k) ==
    [raised |-> FALSE, regra |-> k,
     categoria_id |-> tab[k].categoria_id,
     centro_custo_id |-> tab[k].centro_custo_id,
     descricao_sugerida |-> tab[k].descricao_sugerida,
     forma_pagamento_fixa |-> tab[k].forma_pagamento_fixa]

\* faulty variant: `if not valor_referencia: continue` is missing
RECURSIVE VarrerSemPular(_, _, _, _, _, _)
VarrerSemPular(tab, ordem, i, descricao_extrato, favorecido_texto, forma_pagamento_detectada) ==
    IF i > Len(ordem) THEN SemSugestao
    ELSE LET regra == tab[ordem[i]]
             valor_referencia ==
                 CampoMap(regra.campo_alvo, descricao_extrato, favorecido_texto,
                          forma_pagamento_detectada)
             m == _match_pattern(valor_referencia, regra.tipo_match,
                                 regra.padrao_texto)
         IN  IF m = "raise" THEN Levantou
             ELSE IF m = "sim" THEN SaidaDe(tab, ordem[i])
             ELSE VarrerSemPular(tab, ordem, i + 1, descricao_extrato,
                                 favorecido_texto, forma_pagamento_detectada)

\* the loop `for regra in regras` from position i
RECURSIVE Varrer(_, _, _, _, _, _)
Varrer(tab, ordem, i, descricao_extrato, favorecido_texto, forma_pagamento_detectada) ==
    IF i > Len(ordem) THEN SemSugestao
    ELSE LET regra == tab[ordem[i]]
             valor_referencia ==
                 CampoMap(regra.campo_alvo, descricao_extrato, favorecido_texto,
                          forma_pagamento_detectada)
             m == IF valor_referencia = <<>> THEN "nao"
                  ELSE _match_pattern(valor_referencia, regra.tipo_match,
                                      regra.padrao_texto)
         IN  IF m = "raise" THEN Levantou
             ELSE IF m = "sim" THEN SaidaDe(tab, ordem[i])
             ELSE Varrer(tab, ordem, i + 1, descricao_extrato,
                         favorecido_texto, forma_pagamento_detectada)

\* aplicar_regras_auto_categorizacao on the rows the query returned as `ordem`
aplicar_regras_auto_categorizacao(tab, ordem, descricao_extrato, favorecido_texto, forma_pagamento_detectada) ==
    Varrer(tab, ordem, 1, descricao_extrato, favorecido_texto,
           forma_pagamento_detectada)

-----------------------------------------------------------------------------
(* Rules: rows of regras_auto_categorizacao *)

MaxRegras == 2

Regra(emp, campo, tipo, padrao, cat, cc, desc, forma, prio, at) ==
    [codigoempresa |-> emp, campo_alvo |-> campo, tipo_match |-> tipo,
     padrao_texto |-> padrao, categoria_id |-> cat, centro_custo_id |-> cc,
     descricao_sugerida |-> desc, forma_pagamento_fixa |-> forma,
     prioridade |-> prio, ativo |-> at]

Prioridades == {5, 10}

\* rules of the engine's specification: every output set, different for the
\* two priorities
RegraMotor(emp, campo, tipo, padrao, prio, at) ==
    IF prio = 10
    THEN Regra(emp, campo, tipo, padrao, "c1", "k1", "x", "pix", prio, at)
    ELSE Regra(emp, campo, tipo, padrao, "c2", "k2", "y", "ted", prio, at)

TiposEPadroes ==
    ({"contem", "igual", "prefixo", "sufixo", "regex"} \X {<<>>, <<"a">>})
    \cup {<<"regex", <<"(">>>>, <<"regex", <<"A">>>>, <<"outro", <<>>>>}

RegrasMotor ==
    {RegraMotor("E1", "descricao_extrato", tp[1], tp[2], prio, 1) :
        tp \in TiposEPadroes, prio \in Prioridades}
    \cup {RegraMotor("E1", campo, "contem", <<>>, prio, 1) :
        campo \in {"favorecido_texto", "forma_pagamento", "outro"},
        prio \in Prioridades}
    \cup {RegraMotor("E2", "descricao_extrato", "contem", <<>>, 10, 1),
          RegraMotor("E1", "descricao_extrato", "contem", <<>>, 10, 0)}

SemChamada == [feita |-> FALSE]

\* faulty variant: the connection of the import is in autocommit mode and
\* holds no transaction
SemBloqueioDeEscrita == FALSE

\* the connection of importar_arquivo_e_criar_staging holds SQLite's write
\* lock of the database file from its INSERT INTO importacoes_extrato to its
\* commit or close: sqlite3 opens a transaction before the INSERT and no
\* other connection can write until it ends
BloqueioDeEscrita == imp.pc = "gravando"

\* a row is inserted into regras_auto_categorizacao (by another connection:
\* the repository has no code that writes the table); while an import holds
\* the write lock the INSERT waits or fails with "database is locked"
InserirRegra(r, limite) ==
    /\ ~chamada.feita
    /\ ~BloqueioDeEscrita
    /\ Len(regras) < limite
    /\ regras' = Append(regras, r)
    /\ UNCHANGED chamada
    /\ UNCHANGED vars_pipeline

DescricoesChamada == {<<>>, <<"A", "b">>}
FavorecidosChamada == {NuloTxt, <<"a">>}
FormasChamada == {NuloTxt, <<"a">>}

\* a call aplicar_regras_auto_categorizacao(codigoempresa, d, f, fp): it reads
\* the table in one query, so no insert falls between the query and the result
Chamar(d, f, fp) ==
    /\ ~chamada.feita
    /\ \E ordem \in Ordens(regras, EmpresaSessao) :
          chamada' = [feita |-> TRUE, descricao_extrato |-> d,
                      favorecido_texto |-> f, forma_pagamento_detectada |-> fp,
                      res |-> aplicar_regras_auto_categorizacao(
                                  regras, ordem, d, f, fp)]
    /\ UNCHANGED <<regras>>
    /\ UNCHANGED vars_pipeline

\* the caller takes the result
Retornar ==
    /\ chamada.feita
    /\ chamada' = SemChamada
    /\ UNCHANGED <<regras>>
    /\ UNCHANGED vars_pipeline

InitVazio ==
    /\ regras = <<>>
    /\ chamada = SemChamada
    /\ importacoes = <<>>
    /\ staging = <<>>
    /\ transactions = <<>>
    /\ importacao_id = 0
    /\ imp = [pc |-> "idle"]
    /\ confirmadas = {}
    /\ pedidas = {}
    /\ reimportadas = {}

NextRegras ==
    \/ \E r \in RegrasMotor : InserirRegra(r, MaxRegras)
    \/ \E d \in DescricoesChamada, f \in FavorecidosChamada,
          fp \in FormasChamada : Chamar(d, f, fp)
    \/ Retornar

\* the rule engine alone: rules are inserted, the function is called
SpecRegras == InitVazio /\ [][NextRegras]_vars

-----------------------------------------------------------------------------
(* core/utils.py *)

\* faulty variant: a date that cannot be read is returned as ""
parse_date_ou_vazio(date_str) ==
    CASE date_str = "2024-01-05" -> "2024-01-05"
      [] date_str = "05/01/2024" -> "2024-01-05"
      [] date_str = "05-01-2024" -> "2024-01-05"
      [] date_str = "20240105" -> "2024-01-05"
      [] date_str = "2024-01-06" -> "2024-01-06"
      [] date_str = "20240106" -> "2024-01-06"
      [] OTHER -> ""

\* parse_date on the raw dates of the statements: the four formats give the
\* ISO date, everything else None
parse_date(date_str) ==
    CASE date_str = "2024-01-05" -> "2024-01-05"
      [] date_str = "05/01/2024" -> "2024-01-05"
      [] date_str = "05-01-2024" -> "2024-01-05"
      [] date_str = "20240105" -> "2024-01-05"
      [] date_str = "2024-01-06" -> "2024-01-06"
      [] date_str = "20240106" -> "2024-01-06"
      [] OTHER -> Nulo

\* br_to_float on the raw amounts of the statements: "." is dropped, "," is
\* the decimal point, empty and unparseable give 0.0
br_to_float(value) ==
    CASE value = "100,00" -> 100
      [] value = "-50,00" -> -50
      [] value = "0,00" -> 0
      [] value = "1.000,00" -> 1000
      [] value = "100.00" -> 10000
      [] OTHER -> 0

-----------------------------------------------------------------------------
(* core/importacao.py: format detection and the parsers *)

\* path.suffix.lower()
SuffixLower(ext) ==
    CASE ext = ".OFX" -> ".ofx"
      [] ext = ".CSV" -> ".csv"
      [] ext = ".PDF" -> ".pdf"
      [] OTHER -> ext

\* faulty variant: the suffix is compared as written
DetectarSemLower(ext) ==
    CASE ext = ".ofx" -> "OFX"
      [] ext = ".csv" -> "CSV"
      [] ext = ".pdf" -> "PDF"
      [] OTHER -> "raise"

\* detectar_formato_arquivo: "raise" is the ValueError
detectar_formato_arquivo(ext) ==
    LET e == SuffixLower(ext)
    IN  CASE e = ".ofx" -> "OFX"
          [] e = ".csv" -> "CSV"
          [] e = ".pdf" -> "PDF"
          [] OTHER -> "raise"

\* str.strip() of a memo or of a description cell, as the characters the
\* rule engine reads
Strip(raw) ==
    CASE raw = "a" -> <<"a">>
      [] raw = " a " -> <<"a">>
      [] raw = "b" -> <<"b">>
      [] raw = "Ab" -> <<"A", "b">>
      [] OTHER -> <<>>

\* raw_date[:8]
Primeiros8(raw) ==
    CASE raw = "20240105120000" -> "20240105"
      [] raw = "20240106120000" -> "20240106"
      [] raw = "2024-01-05" -> "2024-01-"
      [] OTHER -> raw

\* float(raw_valor.replace(",", ".")), 0.0 at a ValueError
FloatOfx(raw) ==
    CASE raw = "100.00" -> 100
      [] raw = "-50,00" -> -50
      [] raw = "0.00" -> 0
      [] OTHER -> 0

\* the accumulator `current` of _parse_ofx: {} has no key
CurrentVazio ==
    [data |-> Nulo, tem_valor |-> FALSE, valor |-> 0,
     descricao |-> <<>>, favorecido |-> <<>>]

\* faulty variant: <STMTTRN> leaves the accumulator as it is
AoAbrirSemLimpar(current) == current

\* `current = {}` at a line that starts with <STMTTRN>
AoAbrir(current) == CurrentVazio

\* faulty variant: the test at </STMTTRN> does not look at the date
RECURSIVE ParseOfxDeSemData(_, _, _)
ParseOfxDeSemData(conteudo, i, current) ==
    IF i > Len(conteudo) THEN <<>>
    ELSE LET line == conteudo[i]
         IN  CASE line.tag = "<DTPOSTED>" ->
                    ParseOfxDeSemData(conteudo, i + 1,
                        [current EXCEPT !.data = parse_date(Primeiros8(line.val))])
               [] line.tag = "<TRNAMT>" ->
                    ParseOfxDeSemData(conteudo, i + 1,
                        [current EXCEPT !.tem_valor = TRUE,
                                        !.valor = FloatOfx(line.val)])
               [] line.tag = "<MEMO>" ->
                    ParseOfxDeSemData(conteudo, i + 1,
                        [current EXCEPT !.descricao = Strip(line.val),
                                        !.favorecido = Strip(line.val)])
               [] line.tag = "<STMTTRN>" ->
                    ParseOfxDeSemData(conteudo, i + 1, CurrentVazio)
               [] line.tag = "</STMTTRN>" ->
                    IF current.tem_valor
                    THEN <<[data |-> current.data,
                            descricao |-> current.descricao,
                            favorecido |-> current.favorecido,
                            valor |-> current.valor]>>
                         \o ParseOfxDeSemData(conteudo, i + 1, CurrentVazio)
                    ELSE ParseOfxDeSemData(conteudo, i + 1, CurrentVazio)
               [] OTHER -> ParseOfxDeSemData(conteudo, i + 1, current)

\* _parse_ofx from token i on: the lines appended from there
RECURSIVE ParseOfxDe(_, _, _)
ParseOfxDe(conteudo, i, current) ==
    IF i > Len(conteudo) THEN <<>>
    ELSE LET line == conteudo[i]
         IN  CASE line.tag = "<DTPOSTED>" ->
                    ParseOfxDe(conteudo, i + 1,
                        [current EXCEPT !.data = parse_date(Primeiros8(line.val))])
               [] line.tag = "<TRNAMT>" ->
                    ParseOfxDe(conteudo, i + 1,
                        [current EXCEPT !.tem_valor = TRUE,
                                        !.valor = FloatOfx(line.val)])
               [] line.tag = "<MEMO>" ->
                    ParseOfxDe(conteudo, i + 1,
                        [current EXCEPT !.descricao = Strip(line.val),
                                        !.favorecido = Strip(line.val)])
               [] line.tag = "<STMTTRN>" ->
                    ParseOfxDe(conteudo, i + 1, AoAbrir(current))
               [] line.tag = "</STMTTRN>" ->
                    IF current.data # Nulo /\ current.tem_valor
                    THEN <<[data |-> current.data,
                            descricao |-> current.descricao,
                            favorecido |-> current.favorecido,
                            valor |-> current.valor]>>
                         \o ParseOfxDe(conteudo, i + 1, CurrentVazio)
                    ELSE ParseOfxDe(conteudo, i + 1, CurrentVazio)
               [] OTHER -> ParseOfxDe(conteudo, i + 1, current)

_parse_ofx(conteudo) ==
    [raised |-> FALSE, linhas |-> ParseOfxDe(conteudo, 1, CurrentVazio)]

\* h.strip().lower() of a header cell
HNorm(h) ==
    CASE h = "Data" -> "data"
      [] h = "Descrição" -> "descrição"
      [] h = "Valor" -> "valor"
      [] OTHER -> h

\* idx(*possiveis): the position of the first synonym the header has, 0 is None
RECURSIVE Idx(_, _, _)
Idx(h_norm, possiveis, k) ==
    IF k > Len(possiveis) THEN 0
    ELSE IF \E i \in 1..Len(h_norm) : h_norm[i] = possiveis[k]
         THEN CHOOSE i \in 1..Len(h_norm) :
                  /\ h_norm[i] = possiveis[k]
                  /\ \A j \in 1..(i - 1) : h_norm[j] # possiveis[k]
         ELSE Idx(h_norm, possiveis, k + 1)

SinonimosData == <<"data", "dt", "date">>
SinonimosDesc ==
    <<"descricao", "descrição", "historico", "histórico", "memo", "description">>
SinonimosValor == <<"valor", "amount", "vl", "debito", "crédito", "credito">>

\* `not c.strip()` of a cell
CelulaEmBranco(c) == c \in {"", " "}

\* `not row or all(not c.strip() for c in row)`
LinhaEmBranco(row) == \A i \in 1..Len(row) : CelulaEmBranco(row[i])

\* the loop over the data rows of _parse_csv from row i on; "raise" is the
\* IndexError of a row shorter than a column the header names
ParseCsvDe(rows, i, idx_data, idx_desc, idx_valor) ==
    LET lidas == SelectSeq(SubSeq(rows, i, Len(rows)),
                           LAMBDA row : ~LinhaEmBranco(row))
        Curta(row) == \/ idx_data > Len(row)
                      \/ idx_desc > Len(row)
                      \/ idx_valor > Len(row)
        LinhaDe(row) ==
            LET data == IF idx_data # 0
                        THEN parse_date(row[idx_data]) ELSE Nulo
                descricao == IF idx_desc # 0
                             THEN Strip(row[idx_desc]) ELSE <<>>
                raw_valor == IF idx_valor # 0 THEN row[idx_valor] ELSE "0"
            IN  [data |-> data, descricao |-> descricao,
                 favorecido |-> descricao, valor |-> br_to_float(raw_valor)]
    IN  IF \E n \in 1..Len(lidas) : Curta(lidas[n])
        THEN [raised |-> TRUE, linhas |-> <<>>]
        ELSE [raised |-> FALSE,
              linhas |-> [n \in 1..Len(lidas) |-> LinhaDe(lidas[n])]]

\* _parse_csv: conteudo is the rows csv.reader gives, the header first
_parse_csv(conteudo) ==
    IF Len(conteudo) = 0 THEN [raised |-> FALSE, linhas |-> <<>>]
    ELSE LET h_norm == [i \in 1..Len(conteudo[1]) |-> HNorm(conteudo[1][i])]
         IN  ParseCsvDe(Tail(conteudo), 1,
                        Idx(h_norm, SinonimosData, 1),
                        Idx(h_norm, SinonimosDesc, 1),
                        Idx(h_norm, SinonimosValor, 1))

\* the branch on tipo_arquivo of importar_arquivo_e_criar_staging
Parse(tipo_arquivo, conteudo) ==
    CASE tipo_arquivo = "OFX" -> _parse_ofx(conteudo)
      [] tipo_arquivo = "CSV" -> _parse_csv(conteudo)
      [] OTHER -> [raised |-> FALSE, linhas |-> <<>>]

-----------------------------------------------------------------------------
(* Calls of the parsers on files of every shape *)

Tok(tag, val) == [tag |-> tag, val |-> val]

MaxTagsOfx == 2
MaxRegistrosOfx == 2
MaxLinhasCsv == 2

\* the sequences over S of length 0 to n
SeqsAte(S, n) == UNION {[1..k -> S] : k \in 0..n}

\* the tagged lines of a <STMTTRN> block: a date parse_date reads, a date it
\* does not read, an amount and a memo
TagsOfx ==
    {Tok("<DTPOSTED>", "20240105120000"), Tok("<DTPOSTED>", "lixo"),
     Tok("<TRNAMT>", "-50,00"), Tok("<MEMO>", "a")}

\* the lines of a file whose <STMTTRN> blocks hold the tagged lines of
\* registros, in order
RECURSIVE ConteudoOfx(_)
ConteudoOfx(registros) ==
    IF registros = <<>> THEN <<>>
    ELSE <<Tok("<STMTTRN>", "")>> \o Head(registros)
         \o <<Tok("</STMTTRN>", "")>> \o ConteudoOfx(Tail(registros))

\* a call _parse_ofx(path) on a file of up to MaxRegistrosOfx blocks of up
\* to MaxTagsOfx tagged lines
ParsearOfx ==
    /\ ~chamada.feita
    /\ \E registros \in SeqsAte(SeqsAte(TagsOfx, MaxTagsOfx), MaxRegistrosOfx) :
          chamada' = [feita |-> TRUE, fn |-> "_parse_ofx",
                      registros |-> registros,
                      res |-> _parse_ofx(ConteudoOfx(registros))]
    /\ UNCHANGED <<regras>>
    /\ UNCHANGED vars_pipeline

MaxLinhasOfx == 5

\* the lines of a file in which the markers stand anywhere: the open and
\* the close marker, two dates, two amounts and a memo
LinhasOfx ==
    {Tok("<STMTTRN>", ""), Tok("</STMTTRN>", ""),
     Tok("<DTPOSTED>", "20240105120000"), Tok("<DTPOSTED>", "20240106120000"),
     Tok("<TRNAMT>", "-50,00"), Tok("<TRNAMT>", "100.00"), Tok("<MEMO>", "a")}

\* a call _parse_ofx(path) on a file of up to MaxLinhasOfx lines, blocks
\* that are opened twice, closed twice or never closed included
ParsearOfxLivre ==
    /\ ~chamada.feita
    /\ \E conteudo \in SeqsAte(LinhasOfx, MaxLinhasOfx) :
          chamada' = [feita |-> TRUE, fn |-> "_parse_ofx",
                      conteudo |-> conteudo, res |-> _parse_ofx(conteudo)]
    /\ UNCHANGED <<regras>>
    /\ UNCHANGED vars_pipeline

\* data rows under the header data;descricao;valor: a full row, a row with
\* an empty date cell and an empty amount cell, a row without the amount
\* cell, a row of one cell, a blank row
LinhasCsv ==
    {<<"05/01/2024", "a", "100,00">>, <<"", "a", "">>, <<"05/01/2024", "a">>,
     <<"05/01/2024">>, <<"", "", "">>}

\* a call _parse_csv(path) on a file of up to MaxLinhasCsv data rows
ParsearCsv ==
    /\ ~chamada.feita
    /\ \E rows \in SeqsAte(LinhasCsv, MaxLinhasCsv) :
          chamada' = [feita |-> TRUE, fn |-> "_parse_csv", rows |-> rows,
                      res |-> _parse_csv(<< <<"data", "descricao", "valor">> >>
                                         \o rows)]
    /\ UNCHANGED <<regras>>
    /\ UNCHANGED vars_pipeline

-----------------------------------------------------------------------------
(* Statements the user can select *)

\* two rows, the header in Portuguese
ExtratoCsv ==
    [nome |-> "extrato.csv", ext |-> ".csv",
     conteudo |-> << <<"Data", "Descrição", "Valor">>,
                     <<"05/01/2024", " a ", "100,00">>,
                     <<"", "", "">>,
                     <<"2024-01-06", "b", "-50,00">> >>]

\* two complete records, the first one a line of extrato.csv, and between
\* them a record without a date
ExtratoOfx ==
    [nome |-> "extrato.OFX", ext |-> ".OFX",
     conteudo |-> << Tok("<OFX>", ""),
                     Tok("<STMTTRN>", ""),
                     Tok("<DTPOSTED>", "20240106120000"),
                     Tok("<TRNAMT>", "-50,00"),
                     Tok("<MEMO>", "b"),
                     Tok("</STMTTRN>", ""),
                     Tok("<STMTTRN>", ""),
                     Tok("<TRNAMT>", "100.00"),
                     Tok("</STMTTRN>", ""),
                     Tok("<STMTTRN>", ""),
                     Tok("<DTPOSTED>", "20240105"),
                     Tok("<TRNAMT>", "0.00"),
                     Tok("<MEMO>", "Ab"),
                     Tok("</STMTTRN>", "") >>]

\* no amount column, and an empty date cell in the second row: its line
\* has a null date
SemDataCsv ==
    [nome |-> "semdata.csv", ext |-> ".csv",
     conteudo |-> << <<"dt", "memo">>,
                     <<"05/01/2024", "a">>,
                     <<"", "a">> >>]

\* a row shorter than the header
CurtoCsv ==
    [nome |-> "curto.csv", ext |-> ".csv",
     conteudo |-> << <<"data", "descricao", "valor">>,
                     <<"05/01/2024", "a">> >>]

\* the same line twice: the two rows differ only in what the parser
\* normalises
RepetidoCsv ==
    [nome |-> "repetido.csv", ext |-> ".csv",
     conteudo |-> << <<"data", "historico", "valor">>,
                     <<"05/01/2024", "a", "100,00">>,
                     <<"2024-01-05", " a ", "100,00">> >>]

\* n rows that differ in nothing, under the header data;descricao;valor
ExtratoGrande(n) ==
    [nome |-> "grande.csv", ext |-> ".csv",
     conteudo |-> << <<"data", "descricao", "valor">> >>
                  \o [i \in 1..n |-> <<"05/01/2024", "a", "100,00">>]]

FaturaPdf == [nome |-> "fatura.pdf", ext |-> ".pdf", conteudo |-> <<>>]

NotasTxt == [nome |-> "notas.txt", ext |-> ".txt", conteudo |-> <<>>]

Arquivos == {ExtratoCsv, ExtratoOfx, SemDataCsv, CurtoCsv, FaturaPdf, NotasTxt}

\* the accounts of the tenant of the session (ImportView.contas)
Contas == {1, 2}

-----------------------------------------------------------------------------
(* core/importacao.py: importar_arquivo_e_criar_staging and _gravar_staging *)

MaxImportacoes == 2

Ocioso == [pc |-> "idle"]

\* the row INSERT INTO importacoes_extrato writes: the counters take the
\* defaults of the schema
NovaImportacao(codigoempresa, conta_id, tipo_arquivo, nome_arquivo) ==
    [codigoempresa |-> codigoempresa, conta_id |-> conta_id,
     tipo_arquivo |-> tipo_arquivo, nome_arquivo |-> nome_arquivo,
     total_no_arquivo |-> 0, total_deduplicados |-> 0,
     total_importados |-> 0, total_desconhecidos_pos_importacao |-> 0]

\* a handler ended with an exception: erro is its type, ext the suffix of the
\* file of the import (Nulo for a commit), conectou whether get_connection
\* had been called, gravadas the number of rows the connection had inserted
\* into the table of its loop.  _selecionar_arquivo shows the exception in
\* a modal QMessageBox.critical.
Falhou(erro, ext, conectou, gravadas) ==
    [pc |-> "erro", erro |-> erro, ext |-> ext, conectou |-> conectou,
     gravadas |-> gravadas]

\* faulty variant: the finally block commits before it closes
FecharImportacaoComCommit(tabela, pendentes) == tabela \o pendentes

\* the committed rows of a table after `finally: conn.close()` of
\* importar_arquivo_e_criar_staging ended a connection that had inserted
\* pendentes and did not commit: the transaction is rolled back
FecharImportacao(tabela, pendentes) == tabela

\* the user selects a file and an account: importar_arquivo_e_criar_staging
\* up to the call of _gravar_staging.  The ValueError of the format
\* detection is raised before get_connection; an exception of the parser
\* is raised after the INSERT of the batch and closes the connection
\* without a commit.
ImportarInicio(arquivo, conta_id) ==
    /\ imp.pc = "idle"
    /\ ~chamada.feita
    /\ Len(importacoes) < MaxImportacoes
    /\ LET tipo_arquivo == detectar_formato_arquivo(arquivo.ext)
           lidas == Parse(tipo_arquivo, arquivo.conteudo)
           lote == NovaImportacao(EmpresaSessao, conta_id, tipo_arquivo,
                                  arquivo.nome)
       IN  IF tipo_arquivo = "raise"
           THEN /\ imp' = Falhou("ValueError", arquivo.ext, FALSE, 0)
                /\ UNCHANGED <<importacoes, staging>>
           ELSE IF lidas.raised
           THEN /\ imp' = Falhou("IndexError", arquivo.ext, TRUE, 0)
                /\ importacoes' = FecharImportacao(importacoes, <<lote>>)
                /\ staging' = FecharImportacao(staging, <<>>)
           ELSE /\ imp' = [pc |-> "gravando",
                           codigoempresa |-> EmpresaSessao,
                           conta_id |-> conta_id,
                           importacao_id |-> Len(importacoes) + 1,
                           ext |-> arquivo.ext,
                           lote |-> lote,
                           linhas |-> lidas.linhas,
                           i |-> 1,
                           total_deduplicados |-> 0,
                           total_desconhecidos |-> 0,
                           regras0 |-> regras,
                           cargas |-> 0,
                           pendentes |-> <<>>,
                           ultima |-> [gravou |-> FALSE]]
                /\ UNCHANGED <<importacoes, staging>>
    /\ UNCHANGED <<regras, chamada, transactions, importacao_id, confirmadas,
                   pedidas, reimportadas>>

\* the user closes the message box of a failed handler
FecharErro ==
    /\ imp.pc = "erro"
    /\ imp' = Ocioso
    /\ UNCHANGED <<regras, chamada, importacoes, staging, transactions,
                   importacao_id, confirmadas, pedidas, reimportadas>>

\* faulty variant: a line is also compared with the lines the import has
\* already staged
DuplicadaNoArquivo(codigoempresa, conta_id, linha) ==
    /\ linha.data # Nulo
    /\ \/ \E t \in 1..Len(transactions) :
             /\ transactions[t].codigoempresa = codigoempresa
             /\ transactions[t].conta_id = conta_id
             /\ transactions[t].data_lancamento = linha.data
             /\ transactions[t].valor = linha.valor
             /\ transactions[t].descricao_extrato = linha.descricao
       \/ \E p \in 1..Len(imp.pendentes) :
             /\ imp.pendentes[p].data_lancamento = linha.data
             /\ imp.pendentes[p].valor = linha.valor
             /\ imp.pendentes[p].descricao_extrato = linha.descricao

\* faulty variant: the query has no codigoempresa = ?
DuplicadaSemEmpresa(codigoempresa, conta_id, linha) ==
    /\ linha.data # Nulo
    /\ \E t \in 1..Len(transactions) :
          /\ transactions[t].conta_id = conta_id
          /\ transactions[t].data_lancamento = linha.data
          /\ transactions[t].valor = linha.valor
          /\ transactions[t].descricao_extrato = linha.descricao

\* the SELECT 1 FROM transactions of the deduplication: a null date equals
\* nothing in SQL
Duplicada(codigoempresa, conta_id, linha) ==
    /\ linha.data # Nulo
    /\ \E t \in 1..Len(transactions) :
          /\ transactions[t].codigoempresa = codigoempresa
          /\ transactions[t].conta_id = conta_id
          /\ transactions[t].data_lancamento = linha.data
          /\ transactions[t].valor = linha.valor
          /\ transactions[t].descricao_extrato = linha.descricao

\* faulty variant: the test is `is not None` for each output
OrigemSugestaoNaoNulo(cat_id, cc_id, desc_sug) ==
    IF cat_id # Nulo \/ cc_id # Nulo \/ desc_sug # Nulo
    THEN "regra" ELSE "desconhecido"

\* origem_sugestao of a line from the outputs of the rule engine
OrigemSugestao(cat_id, cc_id, desc_sug) ==
    IF Truthy(cat_id) \/ Truthy(cc_id) \/ Truthy(desc_sug)
    THEN "regra" ELSE "desconhecido"

\* faulty variant: the column is left to its default
StatusClassificacaoPadrao(origem_sugestao) == "desconhecido"

\* status_classificacao of a line
StatusClassificacao(origem_sugestao) ==
    IF origem_sugestao = "desconhecido" THEN "desconhecido" ELSE "sugerido"

\* faulty variant: the suggested description of the rule is written over
\* the description of the line
LinhaStagingComSugerida(codigoempresa, importacao, conta_id, linha, sug) ==
    LET forma_pag == IF Truthy(sug.forma_pagamento_fixa)
                     THEN sug.forma_pagamento_fixa ELSE Nulo
        origem_sugestao == OrigemSugestao(sug.categoria_id,
                               sug.centro_custo_id, sug.descricao_sugerida)
    IN  [codigoempresa |-> codigoempresa, importacao_id |-> importacao,
         conta_id |-> conta_id, data_lancamento |-> linha.data,
         descricao_extrato |-> IF Truthy(sug.descricao_sugerida)
                               THEN <<sug.descricao_sugerida>>
                               ELSE linha.descricao,
         favorecido_texto |-> linha.favorecido, valor |-> linha.valor,
         forma_pagamento_detectada |-> forma_pag,
         categoria_sugerida_id |-> sug.categoria_id,
         centro_custo_sugerido_id |-> sug.centro_custo_id,
         origem_sugestao |-> origem_sugestao,
         status_classificacao |-> StatusClassificacao(origem_sugestao)]

\* the row INSERT INTO staging_transacoes_import writes for a line
LinhaStaging(codigoempresa, importacao, conta_id, linha, sug) ==
    LET forma_pag == IF Truthy(sug.forma_pagamento_fixa)
                     THEN sug.forma_pagamento_fixa ELSE Nulo
        origem_sugestao == OrigemSugestao(sug.categoria_id,
                               sug.centro_custo_id, sug.descricao_sugerida)
    IN  [codigoempresa |-> codigoempresa, importacao_id |-> importacao,
         conta_id |-> conta_id, data_lancamento |-> linha.data,
         descricao_extrato |-> linha.descricao,
         favorecido_texto |-> linha.favorecido, valor |-> linha.valor,
         forma_pagamento_detectada |-> forma_pag,
         categoria_sugerida_id |-> sug.categoria_id,
         centro_custo_sugerido_id |-> sug.centro_custo_id,
         origem_sugestao |-> origem_sugestao,
         status_classificacao |-> StatusClassificacao(origem_sugestao)]

\* faulty variant: a duplicate is skipped without being counted
AposDuplicadaSemContar(im) == [im EXCEPT !.i = @ + 1, !.ultima = [gravou |-> FALSE]]

\* the locals of _gravar_staging after an iteration that found a duplicate
AposDuplicada(im) ==
    [im EXCEPT !.i = @ + 1,
               !.total_deduplicados = @ + 1,
               !.ultima = [gravou |-> FALSE]]

\* faulty variant: total_desconhecidos counts every staged line
AposGravadaContaTodas(im, sug, nova) ==
    [im EXCEPT !.i = @ + 1,
               !.cargas = @ + 1,
               !.total_desconhecidos = @ + 1,
               !.pendentes = Append(@, nova),
               !.ultima = [gravou |-> TRUE, sug |-> sug]]

\* the locals of _gravar_staging and the rows its connection holds after an
\* iteration that staged a line; ultima keeps cat_id, cc_id, desc_sug and
\* forma_fixada of the iteration, cargas counts the queries of the rule
\* table (one in every call of aplicar_regras_auto_categorizacao)
AposGravada(im, sug, nova) ==
    [im EXCEPT !.i = @ + 1,
               !.cargas = @ + 1,
               !.total_desconhecidos =
                   IF nova.origem_sugestao = "desconhecido" THEN @ + 1 ELSE @,
               !.pendentes = Append(@, nova),
               !.ultima = [gravou |-> TRUE, sug |-> sug]]

\* one iteration of the loop of _gravar_staging: the line is counted as a
\* duplicate, or the rules are read (on a connection of their own, so the
\* committed table) and the line is staged on the connection of the import.
\* Any statement of the iteration may raise (sqlite3.OperationalError of the
\* SELECT or of the INSERT, an exception of the rule engine): the exception
\* leaves importar_arquivo_e_criar_staging through its finally block.
GravarLinha ==
    /\ imp.pc = "gravando"
    /\ imp.i <= Len(imp.linhas)
    /\ \E levanta \in BOOLEAN :
          LET linha == imp.linhas[imp.i]
              abortar ==
                  /\ imp' = Falhou("OperationalError", imp.ext, TRUE,
                                   Len(imp.pendentes))
                  /\ importacoes' = FecharImportacao(importacoes, <<imp.lote>>)
                  /\ staging' = FecharImportacao(staging, imp.pendentes)
          IN  IF levanta
              THEN abortar
              ELSE IF Duplicada(imp.codigoempresa, imp.conta_id, linha)
              THEN /\ imp' = AposDuplicada(imp)
                   /\ UNCHANGED <<importacoes, staging>>
              ELSE \E ordem \in Ordens(regras, imp.codigoempresa) :
                     LET sug == aplicar_regras_auto_categorizacao(regras,
                                    ordem, linha.descricao, linha.favorecido,
                                    NuloTxt)
                         nova == LinhaStaging(imp.codigoempresa,
                                     imp.importacao_id, imp.conta_id, linha,
                                     sug)
                     IN  IF sug.raised
                         THEN abortar
                         ELSE /\ imp' = AposGravada(imp, sug, nova)
                              /\ UNCHANGED <<importacoes, staging>>
    /\ UNCHANGED <<regras, chamada, transactions, importacao_id, confirmadas,
                   pedidas, reimportadas>>

\* faulty variant: the UPDATE also sets total_importados to the number of
\* staged lines
ContadoresFinaisComImportados(lote, total_no_arquivo, total_deduplicados, total_desconhecidos) ==
    [lote EXCEPT
        !.total_no_arquivo = total_no_arquivo,
        !.total_deduplicados = total_deduplicados,
        !.total_importados = total_no_arquivo - total_deduplicados,
        !.total_desconhecidos_pos_importacao = total_desconhecidos]

\* the batch row after UPDATE importacoes_extrato SET total_no_arquivo,
\* total_deduplicados, total_desconhecidos_pos_importacao
ContadoresFinais(lote, total_no_arquivo, total_deduplicados, total_desconhecidos) ==
    [lote EXCEPT
        !.total_no_arquivo = total_no_arquivo,
        !.total_deduplicados = total_deduplicados,
        !.total_desconhecidos_pos_importacao = total_desconhecidos]

\* the end of importar_arquivo_e_criar_staging: the counters are written to
\* the batch, the connection commits and the view takes the id of the batch
ImportarFim ==
    /\ imp.pc = "gravando"
    /\ imp.i > Len(imp.linhas)
    /\ importacoes' = Append(importacoes,
          ContadoresFinais(imp.lote, Len(imp.linhas), imp.total_deduplicados,
                           imp.total_desconhecidos))
    /\ staging' = staging \o imp.pendentes
    /\ importacao_id' = imp.importacao_id
    /\ reimportadas' =
          IF \E b \in pedidas :
                /\ importacoes[b].codigoempresa = imp.codigoempresa
                /\ importacoes[b].conta_id = imp.conta_id
                /\ importacoes[b].nome_arquivo = imp.lote.nome_arquivo
          THEN reimportadas \cup {imp.importacao_id}
          ELSE reimportadas
    /\ imp' = Ocioso
    /\ UNCHANGED <<regras, chamada, transactions, confirmadas, pedidas>>

-----------------------------------------------------------------------------
(* core/import_view.py and core/ia_client.py: the classifier pass *)

\* LIMIT 50 of the query of _usar_ia
LimiteIA == 50

\* the ids of the staging rows that pass the WHERE of the query of _usar_ia
CandidatosIA ==
    {k \in 1..Len(staging) :
        /\ staging[k].codigoempresa = EmpresaSessao
        /\ staging[k].importacao_id = importacao_id
        /\ \/ staging[k].status_classificacao = "desconhecido"
           \/ staging[k].categoria_sugerida_id = Nulo}

\* the ids of the rows the query returns: the table has no index, SQLite
\* scans it in the order of the ids and LIMIT stops the scan at the first
\* LimiteIA rows that pass the WHERE
ItensDaConsulta ==
    {k \in CandidatosIA :
        Cardinality({j \in CandidatosIA : j <= k}) <= LimiteIA}

\* the keys of the result of classificar_transacoes_em_lote: the stub has an
\* entry for every item it is given
classificar_transacoes_em_lote(itens) == itens

\* faulty variant: the UPDATE has WHERE importacao_id = ? and no id
AplicarSugestoesNoLote(tabela, sugestoes) ==
    [k \in 1..Len(tabela) |->
        IF sugestoes # {} /\ tabela[k].importacao_id = importacao_id
        THEN [tabela[k] EXCEPT !.origem_sugestao = "ia",
                               !.status_classificacao = "sugerido"]
        ELSE tabela[k]]

\* the staging table after the loop of UPDATE ... WHERE id = ? over the keys
\* of the result of the classifier
AplicarSugestoes(tabela, sugestoes) ==
    [k \in 1..Len(tabela) |->
        IF k \in sugestoes
        THEN [tabela[k] EXCEPT !.origem_sugestao = "ia",
                               !.status_classificacao = "sugerido"]
        ELSE tabela[k]]

\* faulty variant: the rows are updated before the classifier is called
FalhaClassificadorAposAplicar(tabela, itens) ==
    [k \in 1..Len(tabela) |->
        IF k \in itens
        THEN [tabela[k] EXCEPT !.origem_sugestao = "ia",
                               !.status_classificacao = "sugerido"]
        ELSE tabela[k]]

\* the staging table after classificar_transacoes_em_lote raised on itens:
\* _usar_ia has only read the table (its connection is closed) and the
\* UPDATE loop comes after the call
FalhaClassificador(tabela, itens) == tabela

\* _usar_ia: the first LimiteIA candidates are sent, and when the user
\* accepts the dialog the rows of the result get origin ia and status
\* sugerido.  The call of the classifier may raise (the
\* stub writes logs_atividade on a connection of its own and lets the
\* sqlite3.OperationalError of that write pass): _usar_ia does not catch
\* it, the exception leaves the slot and goes to sys.excepthook, and the
\* view goes on with its batch.
UsarIA(aceita) ==
    /\ imp.pc = "idle"
    /\ ~chamada.feita
    /\ importacao_id # 0
    /\ \E falha \in BOOLEAN :
          LET itens == ItensDaConsulta
          IN  IF itens # {} /\ falha
              THEN /\ staging' = FalhaClassificador(staging, itens)
                   /\ imp' = Falhou("OperationalError", Nulo, TRUE, 0)
              ELSE /\ LET sugestoes == classificar_transacoes_em_lote(itens)
                      IN  staging' =
                             IF itens # {} /\ aceita
                             THEN AplicarSugestoes(staging, sugestoes)
                             ELSE staging
                   /\ imp' = imp
    /\ UNCHANGED <<regras, chamada, importacoes, transactions, importacao_id,
                   confirmadas, pedidas, reimportadas>>

-----------------------------------------------------------------------------
(* core/import_view.py: the commit of a batch *)

\* faulty variant: the test is >= 0
TipoMovimentoMaiorIgual(valor) == IF valor >= 0 THEN "credito" ELSE "debito"

\* tipo_movimento from the sign of the amount
TipoMovimento(valor) == IF valor > 0 THEN "credito" ELSE "debito"

\* the columns INSERT INTO transactions of _confirmar_importacao names with
\* a `?` each, in the order of the statement (created_at and updated_at take
\* datetime('now'))
ColunasInsert ==
    <<"codigoempresa", "conta_id", "data_lancamento", "data_competencia",
      "descricao_extrato", "descricao_tratada", "tipo_movimento", "valor",
      "categoria_id", "centro_custo_id", "forma_pagamento", "id_importacao">>

\* the tuple of parameters _confirmar_importacao passes with the statement,
\* in the order of the source: `valor` is read from the row and used for
\* tipo_movimento, but it is not in the tuple
ParametrosInsert(row, codigoempresa, importacao) ==
    <<codigoempresa, row.conta_id, row.data_lancamento, row.data_lancamento,
      row.descricao_extrato, row.descricao_extrato, TipoMovimento(row.valor),
      row.categoria_sugerida_id, row.centro_custo_sugerido_id,
      row.forma_pagamento_detectada, importacao>>

\* sqlite3 raises ProgrammingError (Incorrect number of bindings supplied)
\* when the tuple has not one value for every `?`
BindingsErrados(parametros) == Len(parametros) # Len(ColunasInsert)

\* the row the INSERT writes when it has its bindings: every column takes
\* the parameter at its position
TransacaoDe(row, codigoempresa, importacao) ==
    LET parametros == ParametrosInsert(row, codigoempresa, importacao)
    IN  [c \in {ColunasInsert[i] : i \in 1..Len(ColunasInsert)} |->
            parametros[CHOOSE i \in 1..Len(ColunasInsert) :
                           ColunasInsert[i] = c]]

\* the ids of the rows SELECT * FROM staging_transacoes_import returns for
\* the batch of the view
RowsDe(codigoempresa, importacao) ==
    {k \in 1..Len(staging) :
        /\ staging[k].codigoempresa = codigoempresa
        /\ staging[k].importacao_id = importacao}

\* the elements of a set of ids in ascending order (the query has no ORDER
\* BY; the order only decides the ids the new transactions get)
RECURSIVE EmOrdem(_)
EmOrdem(S) ==
    IF S = {} THEN <<>>
    ELSE LET m == CHOOSE x \in S : \A y \in S : x <= y
         IN  <<m>> \o EmOrdem(S \ {m})

\* faulty variant: the loop leaves out the last row
TransacoesDeMenosUma(codigoempresa, importacao) ==
    LET ids == EmOrdem(RowsDe(codigoempresa, importacao))
    IN  [n \in 1..(Len(ids) - 1) |->
            TransacaoDe(staging[ids[n]], codigoempresa, importacao)]

\* the rows of the batch, as the transactions the loop inserts
TransacoesDe(codigoempresa, importacao) ==
    LET ids == EmOrdem(RowsDe(codigoempresa, importacao))
    IN  [n \in 1..Len(ids) |->
            TransacaoDe(staging[ids[n]], codigoempresa, importacao)]

\* transactions.data_lancamento is NOT NULL: the INSERT of such a row raises
ViolaNotNull(t) == t.data_lancamento = Nulo

\* faulty variant: the finally block commits before it closes
FecharConfirmacaoComCommit(tabela, pendentes) == tabela \o pendentes

\* the committed rows of transactions after `finally: conn.close()` of
\* _confirmar_importacao ended a connection that had inserted pendentes and
\* did not commit: the transaction is rolled back
FecharConfirmacao(tabela, pendentes) == tabela

\* faulty variant: UPDATE importacoes_extrato runs with len(rows), and
\* commits, before the loop
LotesAposFalhaContados(tabela, importacao, rows) ==
    [tabela EXCEPT ![importacao].total_importados = Len(rows)]

\* the committed batches after a commit call ended with an exception: the
\* UPDATE of total_importados comes after the loop and is not reached
LotesAposFalha(tabela, importacao, rows) == tabela

\* the exception the INSERT of a staging row ends with, Nulo when it
\* succeeds: the bindings are checked before the statement runs, the NOT
\* NULL constraint when it runs
ErroInsert(row, codigoempresa, importacao) ==
    IF BindingsErrados(ParametrosInsert(row, codigoempresa, importacao))
    THEN "ProgrammingError"
    ELSE IF ViolaNotNull(TransacaoDe(row, codigoempresa, importacao))
    THEN "IntegrityError"
    ELSE Nulo

\* faulty variant: the view keeps its batch after the commit
ImportacaoIdMantido == importacao_id

\* self.importacao_id after a commit that succeeded (None)
ImportacaoIdAposConfirmar == 0

\* _confirmar_importacao: the user answers the question; at Yes every staging
\* row of the batch is inserted as a transaction, the batch gets
\* total_importados, the connection commits and the view forgets the batch.
\* An INSERT that raises ends the handler through its finally block, after
\* the INSERTs of the rows before it: nothing is committed, the view keeps
\* the batch and the exception leaves the slot.
ConfirmarImportacao(resp) ==
    /\ imp.pc = "idle"
    /\ ~chamada.feita
    /\ importacao_id # 0
    /\ LET ids == EmOrdem(RowsDe(EmpresaSessao, importacao_id))
           ruins == {n \in 1..Len(ids) :
                        ErroInsert(staging[ids[n]], EmpresaSessao,
                                   importacao_id) # Nulo}
           primeira == CHOOSE n \in ruins : \A m \in ruins : n <= m
       IN  IF resp # "Yes"
           THEN UNCHANGED <<importacoes, transactions, importacao_id,
                            confirmadas, pedidas, imp>>
           ELSE IF ruins # {}
           THEN /\ transactions' =
                      FecharConfirmacao(transactions,
                          [n \in 1..(primeira - 1) |->
                              TransacaoDe(staging[ids[n]], EmpresaSessao,
                                          importacao_id)])
                /\ imp' = Falhou(ErroInsert(staging[ids[primeira]],
                                            EmpresaSessao, importacao_id),
                                 Nulo, TRUE, primeira - 1)
                /\ importacoes' = LotesAposFalha(importacoes, importacao_id, ids)
                /\ pedidas' = pedidas \cup {importacao_id}
                /\ UNCHANGED <<importacao_id, confirmadas>>
           ELSE /\ transactions' =
                      transactions
                      \o TransacoesDe(EmpresaSessao, importacao_id)
                /\ importacoes' =
                      [importacoes EXCEPT
                          ![importacao_id].total_importados = Len(ids)]
                /\ confirmadas' = confirmadas \cup {importacao_id}
                /\ pedidas' = pedidas \cup {importacao_id}
                /\ importacao_id' = ImportacaoIdAposConfirmar
                /\ imp' = imp
    /\ UNCHANGED <<regras, chamada, staging, reimportadas>>

-----------------------------------------------------------------------------
(* core/models.py: the manual ledger operations *)

MaxManuais == 1

\* the number of transactions no import wrote
Manuais ==
    Cardinality({t \in 1..Len(transactions) : transactions[t].id_importacao = 0})

\* criar_transacao: tem_valor is `valor is not None`; with no amount the
\* INSERT violates NOT NULL and nothing is written
criar_transacao(codigoempresa, conta_id, data_lancamento, descricao_extrato, descricao_tratada, tem_valor, valor, categoria_id, centro_custo_id, forma_pagamento) ==
    /\ imp.pc = "idle"
    /\ ~chamada.feita
    /\ Manuais < MaxManuais
    /\ transactions' =
          IF ~tem_valor \/ data_lancamento = Nulo
          THEN transactions
          ELSE Append(transactions,
                  [codigoempresa |-> codigoempresa, conta_id |-> conta_id,
                   data_lancamento |-> data_lancamento,
                   data_competencia |-> data_lancamento,
                   descricao_extrato |-> descricao_extrato,
                   descricao_tratada |-> descricao_tratada,
                   tipo_movimento |-> TipoMovimento(valor),
                   valor |-> valor,
                   categoria_id |-> categoria_id,
                   centro_custo_id |-> centro_custo_id,
                   forma_pagamento |-> forma_pagamento,
                   id_importacao |-> 0])
    /\ UNCHANGED <<regras, chamada, importacoes, staging, importacao_id, imp,
                   confirmadas, pedidas, reimportadas>>

\* editar_transacao: only the fields that are not None are written;
\* tem_valor is `valor is not None`
editar_transacao(transacao_id, descricao_tratada, categoria_id, centro_custo_id, tem_valor, valor, forma_pagamento, data_competencia) ==
    /\ imp.pc = "idle"
    /\ ~chamada.feita
    /\ transacao_id \in 1..Len(transactions)
    /\ transactions' =
          [transactions EXCEPT ![transacao_id] =
              [@ EXCEPT
                 !.descricao_tratada =
                     IF descricao_tratada # NuloTxt THEN descricao_tratada ELSE @,
                 !.categoria_id =
                     IF categoria_id # Nulo THEN categoria_id ELSE @,
                 !.centro_custo_id =
                     IF centro_custo_id # Nulo THEN centro_custo_id ELSE @,
                 !.valor = IF tem_valor THEN valor ELSE @,
                 !.forma_pagamento =
                     IF forma_pagamento # Nulo THEN forma_pagamento ELSE @,
                 !.data_competencia =
                     IF data_competencia # Nulo THEN data_competencia ELSE @]]
    /\ UNCHANGED <<regras, chamada, importacoes, staging, importacao_id, imp,
                   confirmadas, pedidas, reimportadas>>

\* the amounts the user types in TransacaoDialog
Valores == {100, 0, -50}

\* TransacaoDialog._on_accept for a new transaction: the description typed
\* is both descriptions (None when empty), the date is today, the account
\* is one of the tenant
NovaTransacaoDialogo(descricao, tem_valor, valor, categoria_id) ==
    \E conta_id \in Contas :
        criar_transacao(EmpresaSessao, conta_id, "2024-01-05", descricao,
                        IF descricao # <<>> THEN descricao ELSE NuloTxt,
                        tem_valor, valor, categoria_id, Nulo, Nulo)

\* TransacaoDialog._on_accept for an existing transaction
EditarTransacaoDialogo(transacao_id, descricao, tem_valor, valor, categoria_id) ==
    editar_transacao(transacao_id,
                     IF descricao # <<>> THEN descricao ELSE NuloTxt,
                     categoria_id, Nulo, tem_valor, valor, Nulo, Nulo)

-----------------------------------------------------------------------------
(* Specifications *)

\* rules of the import specification: the four outputs one at a time and an
\* empty suggested description
RegrasImport ==
    {Regra("E1", "descricao_extrato", "contem", <<"a">>, "c1", Nulo, Nulo, Nulo, 10, 1),
     Regra("E1", "favorecido_texto", "igual", <<"a">>, Nulo, "k1", Nulo, Nulo, 10, 1),
     Regra("E1", "descricao_extrato", "prefixo", <<"a">>, Nulo, Nulo, "x", Nulo, 5, 1),
     Regra("E1", "descricao_extrato", "contem", <<"a">>, Nulo, Nulo, Nulo, "pix", 10, 1),
     Regra("E1", "descricao_extrato", "contem", <<"a">>, Nulo, Nulo, "", Nulo, 5, 1)}

MaxRegrasImport == 1

Init == InitVazio

\* the statements of account 1, and one of them also selected for account 2
Selecoes == (Arquivos \X {1}) \cup {<<ExtratoCsv, 2>>}

NextImportacao ==
    \/ \E sel \in Selecoes : ImportarInicio(sel[1], sel[2])
    \/ FecharErro
    \/ GravarLinha
    \/ ImportarFim
    \/ \E aceita \in BOOLEAN : UsarIA(aceita)
    \/ \E resp \in {"Yes", "No"} : ConfirmarImportacao(resp)

\* the user enters by hand, in account 1, the movement that is the second
\* line of extrato.csv and the first record of extrato.OFX
LancarLinhaDoExtrato ==
    criar_transacao(EmpresaSessao, 1, "2024-01-06", <<"b">>, <<"b">>, TRUE,
                    -50, Nulo, Nulo, Nulo)

Next ==
    \/ LancarLinhaDoExtrato
    \/ NextImportacao

\* the import pipeline: a movement is entered by hand, statements of every
\* kind are imported, passed to the classifier and committed
Spec == Init /\ [][Next]_vars

NextSugestoes ==
    \/ \E r \in RegrasImport : InserirRegra(r, MaxRegrasImport)
    \/ LancarLinhaDoExtrato
    \/ ImportarInicio(ExtratoOfx, 1)
    \/ FecharErro
    \/ GravarLinha
    \/ ImportarFim
    \/ \E aceita \in BOOLEAN : UsarIA(aceita)
    \/ \E resp \in {"Yes", "No"} : ConfirmarImportacao(resp)

\* the suggestions: rules are inserted, a movement is entered by hand,
\* extrato.OFX is imported into account 1, passed to the classifier and
\* committed
SpecSugestoes == Init /\ [][NextSugestoes]_vars

\* the transactions a session of any tenant may have created by hand: the
\* first line of repetido.csv in account 1 of the tenant of the session, and
\* the same with another tenant, account, date, amount or description
LancamentosVizinhos ==
    {<<"E1", 1, "2024-01-05", <<"a">>, 100>>,
     <<"E2", 1, "2024-01-05", <<"a">>, 100>>,
     <<"E1", 2, "2024-01-05", <<"a">>, 100>>,
     <<"E1", 1, "2024-01-06", <<"a">>, 100>>,
     <<"E1", 1, "2024-01-05", <<"a">>, -50>>,
     <<"E1", 1, "2024-01-05", <<"b">>, 100>>}

NextDedup ==
    \/ \E l \in LancamentosVizinhos :
          criar_transacao(l[1], l[2], l[3], l[4], NuloTxt, TRUE, l[5], Nulo,
                          Nulo, Nulo)
    \/ ImportarInicio(RepetidoCsv, 1)
    \/ FecharErro
    \/ GravarLinha
    \/ ImportarFim
    \/ \E resp \in {"Yes", "No"} : ConfirmarImportacao(resp)

\* deduplication: transactions exist in the ledger, repetido.csv is imported
\* into account 1 and committed
SpecDedup == Init /\ [][NextDedup]_vars

NextParser ==
    \/ ParsearOfx
    \/ ParsearCsv
    \/ Retornar

\* the parsers alone
SpecParser == Init /\ [][NextParser]_vars

NextOfx ==
    \/ ParsearOfxLivre
    \/ Retornar

\* _parse_ofx alone, on files whose markers are not paired
SpecOfx == Init /\ [][NextOfx]_vars

MaxLinhasLote == 51

\* the user clicks 'Sugerir categorias via IA', the classifier answers and
\* the user applies the result
PasseAplicado ==
    /\ UsarIA(TRUE)
    /\ imp'.pc = "idle"

NextPasses ==
    \/ \E n \in (LimiteIA - 1)..MaxLinhasLote :
          /\ importacoes = <<>>
          /\ ImportarInicio(ExtratoGrande(n), 1)
    \/ FecharErro
    \/ GravarLinha
    \/ ImportarFim
    \/ PasseAplicado

\* one statement of LimiteIA - 1 to MaxLinhasLote rows is imported (again
\* when the import raised) and the classifier pass is repeated on its batch
\* as long as a pass can change a row; a step that can be taken is taken
SpecPasses == Init /\ [][NextPasses]_vars /\ WF_vars(NextPasses)

NextLivro ==
    \/ ImportarInicio(ExtratoOfx, 1)
    \/ FecharErro
    \/ GravarLinha
    \/ ImportarFim
    \/ \E resp \in {"Yes", "No"} : ConfirmarImportacao(resp)
    \/ \E descricao \in {<<>>, <<"a">>}, tem_valor \in BOOLEAN,
          valor \in Valores :
          NovaTransacaoDialogo(descricao, tem_valor, valor, Nulo)
    \/ \E transacao_id \in 1..Len(transactions), tem_valor \in BOOLEAN,
          valor \in {100, -50} :
          EditarTransacaoDialogo(transacao_id, <<"a">>, tem_valor, valor, Nulo)

\* the ledger: statements are imported and committed, transactions are
\* created and edited by hand
SpecLivro == Init /\ [][NextLivro]_vars

-----------------------------------------------------------------------------
(* Properties of the rule engine, checked under SpecRegras *)

\* rule k of the table, taken alone, matches the input of the call
Casa(k) ==
    LET r == regras[k]
        v == CampoMap(r.campo_alvo, chamada.descricao_extrato,
                      chamada.favorecido_texto,
                      chamada.forma_pagamento_detectada)
    IN  v # <<>> /\ _match_pattern(v, r.tipo_match, r.padrao_texto) = "sim"

\* the active rules of the tenant that match the input of the call
Casam == {k \in Selecionadas(regras, EmpresaSessao) : Casa(k)}

MesmasSaidas(res, r) ==
    /\ res.categoria_id = r.categoria_id
    /\ res.centro_custo_id = r.centro_custo_id
    /\ res.descricao_sugerida = r.descricao_sugerida
    /\ res.forma_pagamento_fixa = r.forma_pagamento_fixa

\* C1: a call returns the four outputs of one matching active rule of the
\* tenant that no matching rule exceeds in priority, in whatever order the
\* rules were inserted; nothing of a lower-priority rule is mixed in, and
\* the four outputs are null when no rule matches.
C1_PrioridadeVence ==
    chamada.feita =>
        IF Casam = {}
        THEN MesmasSaidas(chamada.res, SemSugestao)
        ELSE \E k \in Casam :
                /\ \A j \in Casam : regras[j].prioridade <= regras[k].prioridade
                /\ MesmasSaidas(chamada.res, regras[k])

\* C1 witness: two matching rules, the one of higher priority inserted last
C1_Witness ==
    /\ chamada.feita
    /\ \E i, j \in Casam :
          /\ i < j
          /\ regras[i].prioridade < regras[j].prioridade
          /\ ~MesmasSaidas(regras[i], regras[j])

\* the target field of rule k is empty or null in the call
AlvoVazio(k) ==
    CampoMap(regras[k].campo_alvo, chamada.descricao_extrato,
             chamada.favorecido_texto,
             chamada.forma_pagamento_detectada) = <<>>

\* C8: the rule a call returns never has an empty or null target field,
\* whatever its match kind and pattern (the empty pattern included), and a
\* rule skipped for that reason does not end the scan: a matching rule after
\* it is still returned.
C8_CampoVazioNuncaCasa ==
    chamada.feita =>
        /\ chamada.res.regra # 0 => ~AlvoVazio(chamada.res.regra)
        /\ Casam # {} => chamada.res.regra \in Casam

\* C8 witness: a rule with the empty pattern and an empty target field has
\* the higher priority, and the rule after it was returned
C8_Witness ==
    /\ chamada.feita
    /\ chamada.res.regra # 0
    /\ \E k \in Selecionadas(regras, EmpresaSessao) :
          /\ AlvoVazio(k)
          /\ regras[k].padrao_texto = <<>>
          /\ regras[k].tipo_match = "contem"
          /\ regras[k].prioridade > regras[chamada.res.regra].prioridade

RegexMalformada(k) ==
    regras[k].tipo_match = "regex" /\ ReMalformado(regras[k].padrao_texto)

\* the well-formed rules that match the input of the call
CasamBemFormadas ==
    {k \in Selecionadas(regras, EmpresaSessao) : ~RegexMalformada(k) /\ Casa(k)}

\* C9: a call never raises; a rule whose regex is malformed is never the
\* one returned, the rules after it are still evaluated, and the result is
\* four nulls when no other rule matches.
C9_RegexMalformadaNaoLevanta ==
    chamada.feita =>
        /\ ~chamada.res.raised
        /\ chamada.res.regra # 0 => ~RegexMalformada(chamada.res.regra)
        /\ IF CasamBemFormadas = {}
           THEN MesmasSaidas(chamada.res, SemSugestao)
           ELSE chamada.res.regra \in CasamBemFormadas

\* C9 witness: a malformed regex on a non-empty field has the higher
\* priority and the rule after it was returned
C9_Witness ==
    /\ chamada.feita
    /\ chamada.res.regra # 0
    /\ \E k \in Selecionadas(regras, EmpresaSessao) :
          /\ RegexMalformada(k)
          /\ ~AlvoVazio(k)
          /\ regras[k].prioridade > regras[chamada.res.regra].prioridade

-----------------------------------------------------------------------------
(* Properties of the import pipeline, checked under Spec *)

\* the staging rows that reference batch b
StagingDoLote(b) == {k \in 1..Len(staging) : staging[k].importacao_id = b}

\* the ledger transactions that name batch b as their import
TransacoesDoLote(b) ==
    {t \in 1..Len(transactions) : transactions[t].id_importacao = b}

\* C2: a batch imported after the user asked for the commit of a batch of
\* the same file for the same account counts every line of the file as a
\* duplicate, has no staging row, and no ledger transaction comes from it.
C2_ReimportacaoIdempotente ==
    \A b \in reimportadas :
        /\ importacoes[b].total_deduplicados = importacoes[b].total_no_arquivo
        /\ StagingDoLote(b) = {}
        /\ TransacoesDoLote(b) = {}

\* C3: for every imported batch, total_no_arquivo is total_deduplicados plus
\* the number of staging rows of the batch.
C3_TotalNoArquivo ==
    \A b \in 1..Len(importacoes) :
        importacoes[b].total_no_arquivo =
            importacoes[b].total_deduplicados + Cardinality(StagingDoLote(b))

\* C3 witness: a batch with a duplicate line and a staged line
C3_Witness ==
    \E b \in 1..Len(importacoes) :
        /\ importacoes[b].total_deduplicados > 0
        /\ StagingDoLote(b) # {}

\* C4: when an import ends, total_desconhecidos_pos_importacao of its batch
\* is the number of staging rows of the batch whose origin is desconhecido;
\* no duplicate line is among them.
C4_TotalDesconhecidos ==
    [][Len(importacoes') > Len(importacoes) =>
        LET b == Len(importacoes')
            desconhecidas ==
                {k \in 1..Len(staging') :
                    /\ staging'[k].importacao_id = b
                    /\ staging'[k].origem_sugestao = "desconhecido"}
        IN  /\ importacoes'[b].total_desconhecidos_pos_importacao =
                  Cardinality(desconhecidas)
            /\ Cardinality(desconhecidas) + importacoes'[b].total_deduplicados
                  <= importacoes'[b].total_no_arquivo]_vars

\* C4 witness: a batch with a duplicate, a line a rule resolved and none
\* unresolved, next to rules that resolve nothing of another batch
C4_Witness ==
    /\ \E b \in 1..Len(importacoes) :
          /\ importacoes[b].total_deduplicados > 0
          /\ importacoes[b].total_desconhecidos_pos_importacao = 0
          /\ \E k \in StagingDoLote(b) : staging[k].origem_sugestao = "regra"
    /\ \E b \in 1..Len(importacoes) :
          importacoes[b].total_desconhecidos_pos_importacao > 0

\* C5: a batch whose commit the user asked for has one ledger transaction
\* for each of its staging rows and total_importados is their number; a
\* batch whose commit was not asked for has no ledger transaction and
\* total_importados 0.
C5_UmaTransacaoPorLinha ==
    \A b \in 1..Len(importacoes) :
        IF b \in pedidas
        THEN /\ Cardinality(TransacoesDoLote(b)) = Cardinality(StagingDoLote(b))
             /\ importacoes[b].total_importados = Cardinality(StagingDoLote(b))
             /\ \A k \in StagingDoLote(b) :
                   \E t \in TransacoesDoLote(b) :
                      /\ transactions[t].valor = staging[k].valor
                      /\ transactions[t].descricao_extrato =
                            staging[k].descricao_extrato
                      /\ transactions[t].data_lancamento =
                            staging[k].data_lancamento
        ELSE /\ TransacoesDoLote(b) = {}
             /\ importacoes[b].total_importados = 0

\* C6: every staging row of a batch whose commit the user asked for has a
\* ledger transaction of the batch with its amount, credito when the amount
\* is greater than 0 and debito otherwise, 0 included.
C6_TipoMovimentoNoCommit ==
    \A b \in pedidas :
        \A k \in StagingDoLote(b) :
            \E t \in TransacoesDoLote(b) :
                /\ transactions[t].valor = staging[k].valor
                /\ transactions[t].tipo_movimento =
                      IF staging[k].valor > 0 THEN "credito" ELSE "debito"

\* C7: in every ledger state the movement kind of each transaction agrees
\* with the sign of its amount (checked under SpecLivro).
C7_TipoMovimentoSempre ==
    \A t \in 1..Len(transactions) :
        transactions[t].tipo_movimento =
            IF transactions[t].valor > 0 THEN "credito" ELSE "debito"

\* the staging row of the line the loop of _gravar_staging has just staged
UltimaGravada == imp.pendentes[Len(imp.pendentes)]

\* C10 as claimed: the origin of a staged line is regra exactly when the
\* rule engine returned a non-null category, cost center or suggested
\* description, and its status is sugerido exactly when the origin is regra.
C10_OrigemNaoNulo ==
    (imp.pc = "gravando" /\ imp.ultima.gravou) =>
        /\ UltimaGravada.origem_sugestao =
              IF \/ imp.ultima.sug.categoria_id # Nulo
                 \/ imp.ultima.sug.centro_custo_id # Nulo
                 \/ imp.ultima.sug.descricao_sugerida # Nulo
              THEN "regra" ELSE "desconhecido"
        /\ UltimaGravada.status_classificacao =
              IF UltimaGravada.origem_sugestao = "regra"
              THEN "sugerido" ELSE "desconhecido"

\* C10 amended: the origin of a staged line is regra exactly when the rule
\* engine returned a category, a cost center or a suggested description
\* that is neither null nor empty, and desconhecido otherwise; its status is
\* sugerido exactly when the origin is regra, and desconhecido otherwise.
C10_OrigemNaoVazio ==
    (imp.pc = "gravando" /\ imp.ultima.gravou) =>
        /\ UltimaGravada.origem_sugestao =
              IF \/ imp.ultima.sug.categoria_id \notin {Nulo, ""}
                 \/ imp.ultima.sug.centro_custo_id \notin {Nulo, ""}
                 \/ imp.ultima.sug.descricao_sugerida \notin {Nulo, ""}
              THEN "regra" ELSE "desconhecido"
        /\ UltimaGravada.status_classificacao =
              IF UltimaGravada.origem_sugestao = "regra"
              THEN "sugerido" ELSE "desconhecido"

\* C10 witness: a rule that only fixes the payment method matched the line
\* staged last, and its origin and status are desconhecido
C10_Witness ==
    /\ imp.pc = "gravando"
    /\ imp.ultima.gravou
    /\ imp.ultima.sug.regra # 0
    /\ imp.ultima.sug.forma_pagamento_fixa = "pix"
    /\ UltimaGravada.origem_sugestao = "desconhecido"
    /\ UltimaGravada.status_classificacao = "desconhecido"

-----------------------------------------------------------------------------
(* Properties of failing and running imports and commits, checked under Spec *)

\* C11: an import of a file whose suffix, lower-cased, is not .ofx, .csv or
\* .pdf ends with the ValueError of the format detection, with no connection
\* opened and no batch, staging row or transaction written; a file with one
\* of the three suffixes in any case never ends with that error.
C11_FormatoNaoSuportado ==
    [][(imp.pc = "idle" /\ imp'.pc \in {"gravando", "erro"}
            /\ imp'.ext # Nulo) =>
          IF SuffixLower(imp'.ext) \in {".ofx", ".csv", ".pdf"}
          THEN ~(imp'.pc = "erro" /\ imp'.erro = "ValueError")
          ELSE /\ imp'.pc = "erro"
               /\ imp'.erro = "ValueError"
               /\ ~imp'.conectou
               /\ importacoes' = importacoes
               /\ staging' = staging
               /\ transactions' = transactions]_vars

\* C11 witness: notas.txt was refused after extrato.OFX had been imported
C11_Witness ==
    /\ imp.pc = "erro"
    /\ imp.erro = "ValueError"
    /\ imp.ext = ".txt"
    /\ ~imp.conectou
    /\ \E b \in 1..Len(importacoes) : importacoes[b].tipo_arquivo = "OFX"

\* C12: an import that ends with an exception after the INSERT of its batch
\* (in the parser, in the rule lookup or in the INSERT of a staging row)
\* leaves the committed batches and staging rows as they were; while an
\* import runs none of its rows is committed; an import that succeeds
\* commits its batch with the final counters together with one staging row
\* for every line that is not a duplicate.
C12_ImportacaoTudoOuNada ==
    [][/\ (imp.pc \in {"idle", "gravando"} /\ imp'.pc = "erro"
              /\ imp'.erro \in {"IndexError", "OperationalError"}) =>
             /\ imp'.conectou
             /\ importacoes' = importacoes
             /\ staging' = staging
       /\ (imp.pc = "gravando" /\ imp'.pc = "gravando") =>
             /\ importacoes' = importacoes
             /\ staging' = staging
       /\ (imp.pc = "gravando" /\ imp'.pc = "idle") =>
             LET b == imp.importacao_id
                 n == Len(imp.linhas) - imp.total_deduplicados
             IN  /\ Len(importacoes') = Len(importacoes) + 1
                 /\ b = Len(importacoes')
                 /\ SubSeq(importacoes', 1, Len(importacoes)) = importacoes
                 /\ importacoes'[b].total_no_arquivo = Len(imp.linhas)
                 /\ importacoes'[b].total_deduplicados = imp.total_deduplicados
                 /\ importacoes'[b].total_desconhecidos_pos_importacao =
                       imp.total_desconhecidos
                 /\ Len(staging') = Len(staging) + n
                 /\ SubSeq(staging', 1, Len(staging)) = staging
                 /\ \A k \in (Len(staging) + 1)..Len(staging') :
                       staging'[k].importacao_id = b]_vars

\* C12 witness: an import failed after its connection had staged a row, and
\* no batch is committed
C12_Witness ==
    /\ imp.pc = "erro"
    /\ imp.erro = "OperationalError"
    /\ imp.gravadas >= 1
    /\ importacoes = <<>>
    /\ staging = <<>>

\* C13: a commit in which the INSERT of a transaction fails leaves the
\* ledger, the batches (total_importados included) and the staging rows as
\* they were.
C13_ConfirmacaoTudoOuNada ==
    [][(imp.pc = "idle" /\ imp'.pc = "erro"
            /\ imp'.erro \in {"ProgrammingError", "IntegrityError"}) =>
          /\ transactions' = transactions
          /\ importacoes' = importacoes
          /\ staging' = staging
          /\ confirmadas' = confirmadas]_vars

\* C13 witness: the commit of a batch of two rows failed, and the batch has
\* no transaction and total_importados 0
C13_Witness ==
    /\ imp.pc = "erro"
    /\ imp.erro \in {"ProgrammingError", "IntegrityError"}
    /\ importacao_id # 0
    /\ Cardinality(StagingDoLote(importacao_id)) = 2
    /\ importacoes[importacao_id].total_importados = 0
    /\ TransacoesDoLote(importacao_id) = {}

\* C14: no step of an import changes the ledger or the total_importados of
\* a batch, the batch it commits has total_importados 0, and every batch
\* has total_importados 0 as long as no commit of it succeeded.
C14_ImportacaoNaoGravaLivro ==
    [][/\ \A b \in 1..Len(importacoes') :
             b \notin confirmadas' => importacoes'[b].total_importados = 0
       /\ (imp' # imp /\ (imp.pc = "gravando" \/ imp'.pc = "gravando")) =>
             /\ transactions' = transactions
             /\ \A b \in 1..Len(importacoes') :
                   importacoes'[b].total_importados =
                       IF b <= Len(importacoes)
                       THEN importacoes[b].total_importados ELSE 0]_vars

\* C14 witness: a batch with staged rows was imported next to a movement
\* entered by hand: it waits for its commit with total_importados 0 and the
\* ledger holds the one movement
C14_Witness ==
    /\ \E b \in 1..Len(importacoes) :
          /\ b \notin confirmadas
          /\ StagingDoLote(b) # {}
          /\ importacoes[b].total_deduplicados > 0
          /\ importacoes[b].total_importados = 0
    /\ Len(transactions) = 1

\* the line of the iteration of _gravar_staging that ended last
LinhaAnterior == imp.linhas[imp.i - 1]

\* the outputs of the rule engine for the line staged last are outputs of
\* the rule table as it was when the import began
SugestaoDasRegrasIniciais ==
    (imp.pc = "gravando" /\ imp.ultima.gravou) =>
        /\ regras = imp.regras0
        /\ \E ordem \in Ordens(imp.regras0, imp.codigoempresa) :
              imp.ultima.sug =
                  aplicar_regras_auto_categorizacao(imp.regras0, ordem,
                      LinhaAnterior.descricao, LinhaAnterior.favorecido,
                      NuloTxt)

\* C19 as claimed: the rule table is loaded once for the import and every
\* line is evaluated against that rule set.
C19_RegrasCarregadasUmaVez ==
    /\ imp.pc = "gravando" => imp.cargas <= 1
    /\ SugestaoDasRegrasIniciais

\* C19 amended: every line of an import is evaluated against the rule table
\* as it was when the import began, although the table is queried again for
\* every line that is not a duplicate: no other connection writes a rule
\* while the import runs.
C19_MesmasRegrasNoLote ==
    /\ SugestaoDasRegrasIniciais
    /\ imp.pc = "gravando" =>
          imp.cargas = Len(imp.pendentes)

\* C19 witness: the second query of the rule table of an import found the
\* rule that matches its line
C19_Witness ==
    /\ imp.pc = "gravando"
    /\ imp.cargas >= 2
    /\ imp.ultima.gravou
    /\ imp.ultima.sug.regra # 0
    /\ imp.regras0 # <<>>

\* C20: when a classifier pass changes the staging table, the rows it sent
\* (rows of the batch of the view that are desconhecido or have no category,
\* up to the limit of the query, all of them keys of the result) get origin
\* ia and status sugerido and keep their other columns, and every other row
\* is unchanged.
C20_SoChavesDoResultado ==
    [][(staging' # staging /\ Len(staging') = Len(staging)) =>
          LET candidatas ==
                  {k \in 1..Len(staging) :
                      /\ staging[k].codigoempresa = EmpresaSessao
                      /\ staging[k].importacao_id = importacao_id
                      /\ \/ staging[k].status_classificacao = "desconhecido"
                         \/ staging[k].categoria_sugerida_id = Nulo}
          IN  \E enviadas \in SUBSET candidatas :
                 /\ \/ enviadas = candidatas
                    \/ Cardinality(enviadas) = LimiteIA
                 /\ \A k \in 1..Len(staging) :
                       staging'[k] =
                           IF k \in enviadas
                           THEN [staging[k] EXCEPT
                                    !.origem_sugestao = "ia",
                                    !.status_classificacao = "sugerido"]
                           ELSE staging[k]]_vars

\* C20 witness: in one batch a row has origin ia and a row that was not sent
\* keeps origin regra and its category
C20_Witness ==
    \E k, j \in 1..Len(staging) :
        /\ staging[k].importacao_id = staging[j].importacao_id
        /\ staging[k].origem_sugestao = "ia"
        /\ staging[k].status_classificacao = "sugerido"
        /\ staging[j].origem_sugestao = "regra"
        /\ staging[j].categoria_sugerida_id # Nulo

-----------------------------------------------------------------------------
(* Properties of the deduplication, checked under SpecDedup *)

\* the ledger holds a transaction of the tenant and the account of the
\* running import with the date, the amount and the description of linha
NoLivro(linha) ==
    \E t \in 1..Len(transactions) :
        /\ transactions[t].codigoempresa = imp.codigoempresa
        /\ transactions[t].conta_id = imp.conta_id
        /\ transactions[t].data_lancamento = linha.data
        /\ transactions[t].valor = linha.valor
        /\ transactions[t].descricao_extrato = linha.descricao

\* C15: of the lines an import has processed, those equal to a line the
\* ledger does not hold are staged once each, however many they are.
C15_DuplicatasNoArquivo ==
    imp.pc = "gravando" =>
        \A n \in 1..(imp.i - 1) :
            ~NoLivro(imp.linhas[n]) =>
                Cardinality({m \in 1..(imp.i - 1) :
                                imp.linhas[m] = imp.linhas[n]})
                = Cardinality({p \in 1..Len(imp.pendentes) :
                      /\ imp.pendentes[p].data_lancamento = imp.linhas[n].data
                      /\ imp.pendentes[p].valor = imp.linhas[n].valor
                      /\ imp.pendentes[p].descricao_extrato =
                            imp.linhas[n].descricao})

\* C15 witness: the two equal lines of repetido.csv are staged as two rows
\* and no duplicate is counted
C15_Witness ==
    /\ imp.pc = "gravando"
    /\ imp.i = 3
    /\ imp.linhas[1] = imp.linhas[2]
    /\ Len(imp.pendentes) = 2
    /\ imp.total_deduplicados = 0

\* C16: an iteration of the staging loop counts its line as a duplicate and
\* stages nothing exactly when the ledger holds a transaction with the
\* tenant, the account, the date, the amount and the description of the
\* line; otherwise it stages the line and counts no duplicate.
C16_DuplicadaSeESoSe ==
    [][(imp.pc = "gravando" /\ imp'.pc = "gravando") =>
          IF NoLivro(imp.linhas[imp.i])
          THEN /\ imp'.total_deduplicados = imp.total_deduplicados + 1
               /\ imp'.pendentes = imp.pendentes
          ELSE /\ imp'.total_deduplicados = imp.total_deduplicados
               /\ Len(imp'.pendentes) = Len(imp.pendentes) + 1]_vars

\* C16 witness: a line was staged although the ledger holds its date, amount
\* and description in the same account of another tenant
C16_Witness ==
    /\ imp.pc = "gravando"
    /\ imp.ultima.gravou
    /\ \E t \in 1..Len(transactions) :
          /\ transactions[t].codigoempresa # imp.codigoempresa
          /\ transactions[t].conta_id = imp.conta_id
          /\ transactions[t].data_lancamento = LinhaAnterior.data
          /\ transactions[t].valor = LinhaAnterior.valor
          /\ transactions[t].descricao_extrato = LinhaAnterior.descricao

-----------------------------------------------------------------------------
(* Properties of the parsers, checked under SpecParser *)

\* the tagged lines of a block give a record with a date and an amount: the
\* last <DTPOSTED> is the one parse_date reads, and there is a <TRNAMT>
Completo(registro) ==
    /\ \E d \in 1..Len(registro) :
          /\ registro[d] = Tok("<DTPOSTED>", "20240105120000")
          /\ \A e \in (d + 1)..Len(registro) : registro[e].tag # "<DTPOSTED>"
    /\ \E a \in 1..Len(registro) : registro[a].tag = "<TRNAMT>"

\* C17: _parse_ofx does not raise and returns one line for every block with
\* a date it can read and an amount, and none for a block without a date
\* tag, with a date it cannot read or without an amount tag.
C17_OfxSoRegistrosCompletos ==
    (chamada.feita /\ chamada.fn = "_parse_ofx") =>
        /\ ~chamada.res.raised
        /\ Len(chamada.res.linhas) =
              Cardinality({r \in 1..Len(chamada.registros) :
                              Completo(chamada.registros[r])})
        /\ \A l \in 1..Len(chamada.res.linhas) :
              /\ chamada.res.linhas[l].data = "2024-01-05"
              /\ chamada.res.linhas[l].valor = -50

\* C17 witness: of a block with an amount and a date that cannot be read and
\* a block with both, only the second gives a line
C17_Witness ==
    /\ chamada.feita
    /\ chamada.fn = "_parse_ofx"
    /\ Len(chamada.registros) = 2
    /\ chamada.registros[1] =
          <<Tok("<DTPOSTED>", "lixo"), Tok("<TRNAMT>", "-50,00")>>
    /\ Completo(chamada.registros[2])
    /\ Len(chamada.res.linhas) = 1

\* C18: _parse_csv does not raise and returns one line for every data row
\* that is not blank, with a null date for a date cell that is absent or
\* empty and amount 0 for an amount cell that is absent or empty.
C18_CsvNuncaLevanta ==
    (chamada.feita /\ chamada.fn = "_parse_csv") =>
        LET dados == SelectSeq(chamada.rows,
                               LAMBDA row : row # <<"", "", "">>)
        IN  /\ ~chamada.res.raised
            /\ Len(chamada.res.linhas) = Len(dados)
            /\ \A l \in 1..Len(dados) :
                  /\ (Len(dados[l]) < 1 \/ dados[l][1] = "") =>
                        chamada.res.linhas[l].data = Nulo
                  /\ (Len(dados[l]) < 3 \/ dados[l][3] = "") =>
                        chamada.res.linhas[l].valor = 0

-----------------------------------------------------------------------------
(* Properties of the classifier pass *)

\* C21: a classifier pass in which the call of the classifier raises leaves
\* every staging row (status and origin included), every batch with its
\* counters and the ledger as they were, and the view keeps its batch: once
\* the error is dismissed a later pass or a commit acts on the same batch.
C21_FalhaDoClassificadorNaoFatal ==
    [][(imp.pc = "idle" /\ imp'.pc = "erro" /\ imp'.ext = Nulo
            /\ imp'.erro = "OperationalError") =>
          /\ staging' = staging
          /\ importacoes' = importacoes
          /\ transactions' = transactions
          /\ importacao_id' = importacao_id
          /\ importacao_id' # 0
          /\ confirmadas' = confirmadas]_vars

\* C21 witness: a pass over a batch of two rows failed; both rows are still
\* desconhecido and are what the next pass would send
C21_Witness ==
    /\ imp.pc = "erro"
    /\ imp.ext = Nulo
    /\ imp.erro = "OperationalError"
    /\ importacao_id # 0
    /\ Cardinality(CandidatosIA) = 2
    /\ \A k \in CandidatosIA : staging[k].status_classificacao = "desconhecido"
    /\ importacoes[importacao_id].total_desconhecidos_pos_importacao = 2

\* C22: a staging row whose origin is regra is not among the rows a
\* classifier pass changes: it keeps origin regra and its status through
\* every step, whatever outputs its rule gave.
C22_RegraNuncaEnviada ==
    [][\A k \in 1..Len(staging) :
          staging[k].origem_sugestao = "regra" => staging'[k] = staging[k]]_vars

-----------------------------------------------------------------------------
(* Properties of the values a commit writes *)

\* C23: for every batch whose commit the user asked for, each staging row of
\* the batch has a ledger transaction of that batch carrying the values the
\* row holds: its account, its date as data_lancamento and data_competencia,
\* its raw description, its amount, its category, cost centre and payment
\* method, and the batch id as id_importacao.
C23_ValoresDaLinhaNoLivro ==
    \A b \in pedidas :
        \A k \in StagingDoLote(b) :
            \E t \in 1..Len(transactions) :
                /\ transactions[t].id_importacao = b
                /\ transactions[t].codigoempresa = staging[k].codigoempresa
                /\ transactions[t].conta_id = staging[k].conta_id
                /\ transactions[t].data_lancamento = staging[k].data_lancamento
                /\ transactions[t].data_competencia = staging[k].data_lancamento
                /\ transactions[t].descricao_extrato =
                      staging[k].descricao_extrato
                /\ transactions[t].valor = staging[k].valor
                /\ transactions[t].categoria_id =
                      staging[k].categoria_sugerida_id
                /\ transactions[t].centro_custo_id =
                      staging[k].centro_custo_sugerido_id
                /\ transactions[t].forma_pagamento =
                      staging[k].forma_pagamento_detectada

-----------------------------------------------------------------------------
(* Properties of the accumulator of _parse_ofx, checked under SpecOfx *)

\* the line of the nearest open or close marker before line c, 0 for none
MarcadorAntes(conteudo, c) ==
    LET M == {p \in 1..(c - 1) :
                 conteudo[p].tag \in {"<STMTTRN>", "</STMTTRN>"}}
    IN  IF M = {} THEN 0 ELSE CHOOSE p \in M : \A q \in M : q <= p

\* the last line with the tag between the nearest marker and line c, 0 for
\* none
UltimaDesde(conteudo, c, tag) ==
    LET T == {i \in (MarcadorAntes(conteudo, c) + 1)..(c - 1) :
                 conteudo[i].tag = tag}
    IN  IF T = {} THEN 0 ELSE CHOOSE i \in T : \A j \in T : j <= i

\* the close markers with a date and an amount read since the nearest marker
FechosComRegistro(conteudo) ==
    {c \in 1..Len(conteudo) :
        /\ conteudo[c].tag = "</STMTTRN>"
        /\ UltimaDesde(conteudo, c, "<DTPOSTED>") # 0
        /\ UltimaDesde(conteudo, c, "<TRNAMT>") # 0}

\* the record of the date, amount and memo read since the nearest marker
\* before the close marker c
RegistroDesde(conteudo, c) ==
    LET d == UltimaDesde(conteudo, c, "<DTPOSTED>")
        v == UltimaDesde(conteudo, c, "<TRNAMT>")
        m == UltimaDesde(conteudo, c, "<MEMO>")
        memo == IF m = 0 THEN <<>> ELSE <<conteudo[m].val>>
    IN  [data |-> IF conteudo[d].val = "20240105120000"
                  THEN "2024-01-05" ELSE "2024-01-06",
         valor |-> IF conteudo[v].val = "-50,00" THEN -50 ELSE 100,
         descricao |-> memo, favorecido |-> memo]

\* C24: the lines _parse_ofx returns are, in order, the records of the close
\* markers that have a date and an amount between them and the nearest open
\* or close marker before them, each made only of the date, amount and memo
\* read in that stretch; what is read before an open marker, in a block that
\* is never closed or before an earlier close marker is in no record.
C24_AcumuladorNaoVaza ==
    (chamada.feita /\ chamada.fn = "_parse_ofx") =>
        LET conteudo == chamada.conteudo
            fechos == FechosComRegistro(conteudo)
        IN  /\ Len(chamada.res.linhas) = Cardinality(fechos)
            /\ \A c \in fechos :
                  chamada.res.linhas[Cardinality({e \in fechos : e <= c})] =
                     RegistroDesde(conteudo, c)

\* C24 witness: a block with a date and a memo is opened and never closed,
\* the block after it has only an amount: no line is returned
C24_Witness ==
    /\ chamada.feita
    /\ chamada.fn = "_parse_ofx"
    /\ chamada.conteudo =
          <<Tok("<STMTTRN>", ""), Tok("<DTPOSTED>", "20240105120000"),
            Tok("<STMTTRN>", ""), Tok("<TRNAMT>", "-50,00"),
            Tok("</STMTTRN>", "")>>
    /\ chamada.res.linhas = <<>>

-----------------------------------------------------------------------------
(* Properties of the status of the staging rows, checked under
   SpecSugestoes *)

\* C25: in every state each staging row has status desconhecido exactly
\* when its origin is desconhecido, and a row with origin regra or ia has
\* status sugerido.
C25_StatusSegueOrigem ==
    \A k \in 1..Len(staging) :
        /\ staging[k].origem_sugestao \in {"desconhecido", "regra", "ia"}
        /\ staging[k].status_classificacao \in {"desconhecido", "sugerido"}
        /\ staging[k].status_classificacao = "desconhecido"
              <=> staging[k].origem_sugestao = "desconhecido"

\* C25 witness: after imports and an applied classifier pass the table has
\* a row of each origin
C25_Witness ==
    \E r, i, d \in 1..Len(staging) :
        /\ staging[r].origem_sugestao = "regra"
        /\ staging[i].origem_sugestao = "ia"
        /\ staging[d].origem_sugestao = "desconhecido"

-----------------------------------------------------------------------------
(* Properties of repeated classifier passes, checked under SpecPasses *)

\* C26: once the view holds a batch, the classifier pass repeated on it,
\* each result applied, eventually leaves every staging row of the batch
\* with status sugerido, whatever the size of the batch.
C26_PassesClassificamTudo ==
    (importacao_id # 0 /\ imp.pc = "idle")
        ~> (/\ importacao_id # 0
            /\ \A k \in StagingDoLote(importacao_id) :
                  staging[k].status_classificacao = "sugerido")

-----------------------------------------------------------------------------
(* Properties of the batch of the view, checked under Spec *)

\* C28: a step in which a commit succeeds is a commit of the batch of the
\* view and leaves the view without a batch, so the view never holds a
\* batch that is committed; and while the view has no batch and no import is
\* running, the batches, the staging rows and the set of committed batches
\* change in no step, and the ledger only by a transaction entered by hand.
C28_ConfirmaUmaVez ==
    [][/\ \A b \in confirmadas' \ confirmadas :
             importacao_id = b /\ importacao_id' = 0
       /\ importacao_id' \notin confirmadas'
       /\ (importacao_id = 0 /\ imp.pc = "idle" /\ imp'.pc = "idle") =>
             /\ importacao_id' = 0
             /\ importacoes' = importacoes
             /\ staging' = staging
             /\ confirmadas' = confirmadas
             /\ pedidas' = pedidas
             /\ \/ transactions' = transactions
                \/ /\ Len(transactions') = Len(transactions) + 1
                   /\ SubSeq(transactions', 1, Len(transactions)) = transactions
                   /\ transactions'[Len(transactions')].id_importacao = 0]_vars

\* C28 witness: the commit of a batch succeeded and the view has no batch
\* until the next import
C28_Witness ==
    /\ confirmadas # {}
    /\ importacao_id = 0
    /\ imp.pc = "idle"
    /\ \A b \in confirmadas : importacoes[b].total_importados = 0

-----------------------------------------------------------------------------
(* Properties of the descriptions, checked under SpecSugestoes *)

\* C29: a staged row holds the description of its line and has no column
\* for a suggested description, also when the suggested description is the
\* only output of the rule that matched (the origin of the row is then
\* regra); no later step changes the description of a staging row; the
\* commit binds the description of the row to descricao_extrato and to
\* descricao_tratada, and every ledger transaction of a batch has the two
\* equal.
C29_DescricaoSugeridaNaoPersiste ==
    [][/\ (/\ imp.pc = "gravando"
           /\ imp'.pc = "gravando"
           /\ imp'.ultima.gravou
           /\ Len(imp'.pendentes) = Len(imp.pendentes) + 1) =>
             LET nova == imp'.pendentes[Len(imp'.pendentes)]
                 sug == imp'.ultima.sug
             IN  /\ nova.descricao_extrato = imp.linhas[imp.i].descricao
                 /\ DOMAIN nova =
                       {"codigoempresa", "importacao_id", "conta_id",
                        "data_lancamento", "descricao_extrato",
                        "favorecido_texto", "valor",
                        "forma_pagamento_detectada", "categoria_sugerida_id",
                        "centro_custo_sugerido_id", "origem_sugestao",
                        "status_classificacao"}
                 /\ Truthy(sug.descricao_sugerida) =>
                       nova.origem_sugestao = "regra"
       /\ \A k \in 1..Len(staging) :
             /\ k <= Len(staging')
             /\ staging'[k].descricao_extrato = staging[k].descricao_extrato
       /\ \A b \in pedidas' :
             \A k \in StagingDoLote(b) :
                LET parametros == ParametrosInsert(staging[k], EmpresaSessao, b)
                IN  /\ parametros[5] = staging[k].descricao_extrato
                    /\ parametros[6] = staging[k].descricao_extrato
                    /\ ColunasInsert[5] = "descricao_extrato"
                    /\ ColunasInsert[6] = "descricao_tratada"
       /\ \A t \in 1..Len(transactions') :
             transactions'[t].id_importacao # 0 =>
                transactions'[t].descricao_tratada =
                   transactions'[t].descricao_extrato]_vars

\* C29 witness: the line Ab was staged under a rule whose only output is the
\* suggested description x: the row has origin regra and the description Ab
C29_Witness ==
    /\ imp.pc = "gravando"
    /\ imp.ultima.gravou
    /\ imp.ultima.sug.categoria_id = Nulo
    /\ imp.ultima.sug.centro_custo_id = Nulo
    /\ imp.ultima.sug.descricao_sugerida = "x"
    /\ imp.pendentes # <<>>
    /\ imp.pendentes[Len(imp.pendentes)].origem_sugestao = "regra"
    /\ imp.pendentes[Len(imp.pendentes)].descricao_extrato = <<"A", "b">>

-----------------------------------------------------------------------------
(* Properties of the lines without a date, checked under Spec *)

\* C30: the row of semdata.csv whose date cell is empty is read as a line
\* with a null date; in every import of it the line is staged with a null
\* date and not counted as a duplicate; a commit the user asks for of a
\* batch with such a row ends with an exception and changes no transaction,
\* and no batch with such a row has a transaction in the ledger.
C30_LinhaSemData ==
    [][/\ (/\ imp.pc = "idle"
           /\ imp'.pc = "gravando"
           /\ imp'.lote.nome_arquivo = "semdata.csv") =>
             /\ Len(imp'.linhas) = 2
             /\ imp'.linhas[2].data = Nulo
       /\ (/\ imp.pc = "gravando"
           /\ imp'.pc = "gravando"
           /\ imp.i <= Len(imp.linhas)
           /\ imp.linhas[imp.i].data = Nulo) =>
             /\ imp'.ultima.gravou
             /\ imp'.total_deduplicados = imp.total_deduplicados
             /\ Len(imp'.pendentes) = Len(imp.pendentes) + 1
             /\ imp'.pendentes[Len(imp'.pendentes)].data_lancamento = Nulo
       /\ \A b \in pedidas' \ pedidas :
             (\E k \in StagingDoLote(b) : staging[k].data_lancamento = Nulo) =>
                /\ imp'.pc = "erro"
                /\ imp'.erro \in {"ProgrammingError", "IntegrityError"}
                /\ transactions' = transactions
                /\ b \notin confirmadas'
       /\ \A b \in 1..Len(importacoes') :
             (\E k \in 1..Len(staging') :
                 /\ staging'[k].importacao_id = b
                 /\ staging'[k].data_lancamento = Nulo) =>
                \A t \in 1..Len(transactions') :
                   transactions'[t].id_importacao # b]_vars

\* C30 witness: semdata.csv was imported, the commit of its batch was asked
\* for and raised, and the file was imported again: each batch has the row
\* with the null date, the second import counted no duplicate, and the
\* ledger has no transaction of a batch
C30_Witness ==
    /\ Len(importacoes) = 2
    /\ imp.pc = "idle"
    /\ 1 \in pedidas
    /\ 1 \notin confirmadas
    /\ \A b \in {1, 2} :
          /\ importacoes[b].nome_arquivo = "semdata.csv"
          /\ importacoes[b].total_no_arquivo = 2
          /\ importacoes[b].total_deduplicados = 0
          /\ Cardinality({k \in StagingDoLote(b) :
                             staging[k].data_lancamento = Nulo}) = 1
          /\ TransacoesDoLote(b) = {}

====
